---- MODULE Spec2Model ----
(***************************************************************************)
(* A model of the cad-datamodel geometric core: the Transform algebra      *)
(* (core/types.py) and the shapes that consume it (shapes/rectangle.py,    *)
(* shapes/circle.py, shapes/shape.py).                                     *)
(*                                                                         *)
(* float64 values are modelled as exact rationals [num, den] in lowest     *)
(* terms, so every "within floating tolerance" equality of the library is  *)
(* an exact equality here.  np.cos / np.sin are tabulated for the angles   *)
(* whose cosine and sine are rational.                                     *)
(***************************************************************************)
EXTENDS Integers, Sequences, FiniteSets, TLC

VARIABLES
    transforms,   \* the Transform objects the caller holds, in creation order
    shapes,       \* the shape objects the caller holds, in creation order
    applied,      \* history: per shape, its base transform and the transforms
                  \* passed to apply_transform since then
    uuids,        \* number of uuid.uuid4() identifiers generated so far
    last,         \* the last call: operation, receiver, arguments, outcome
    heap,         \* the objects that can be shared or written to (ndarray, dict,
                  \* Style) and the objects that refer to them, by address
    refs,         \* the addresses of heap the caller holds a reference to
    document      \* the Document the caller exports

vars == <<transforms, shapes, applied, uuids, last, heap, refs, document>>

(***************************************************************************)
(* Bounds of the model.                                                    *)
(***************************************************************************)
MaxTransforms == 3
MaxShapes == 3
MaxUuids == 1

(***************************************************************************)
(* Python's None and optional values.                                      *)
(***************************************************************************)
None == <<>>
Some(v) == <<v>>
IsNone(o) == Len(o) = 0
Get(o) == o[1]

(***************************************************************************)
(* float arithmetic, modelled exactly.                                     *)
(***************************************************************************)
Abs(n) == IF n < 0 THEN -n ELSE n

RECURSIVE GCD(_, _)
GCD(a, b) == IF b = 0 THEN a ELSE GCD(b, a % b)

\* the rational n/d (d > 0) in lowest terms
Norm(n, d) ==
    LET g == GCD(Abs(n), d)
    IN  [num |-> n \div g, den |-> d \div g]

\* float(n) for a Python int n
Float(n) == [num |-> n, den |-> 1]

Zero == Float(0)
One == Float(1)

\* float("nan"): not a number; every comparison with it is false and every
\* operation on it gives nan
NaN == [num |-> 0, den |-> 0]
IsNaN(a) == a.den = 0

RAdd(a, b) ==
    IF IsNaN(a) \/ IsNaN(b) THEN NaN
    ELSE LET g == GCD(a.den, b.den)
         IN  Norm(a.num * (b.den \div g) + b.num * (a.den \div g),
                  (a.den \div g) * b.den)
RNeg(a) == [num |-> -a.num, den |-> a.den]
RSub(a, b) == RAdd(a, RNeg(b))
RMul(a, b) ==
    IF IsNaN(a) \/ IsNaN(b) THEN NaN
    ELSE LET g1 == GCD(Abs(a.num), b.den)
             g2 == GCD(Abs(b.num), a.den)
         IN  [num |-> (a.num \div g1) * (b.num \div g2),
              den |-> (a.den \div g2) * (b.den \div g1)]
\* a / b for b # 0
RDiv(a, b) ==
    IF IsNaN(a) \/ IsNaN(b) THEN NaN
    ELSE IF b.num > 0 THEN Norm(a.num * b.den, a.den * b.num)
    ELSE Norm(-(a.num * b.den), -(a.den * b.num))
RLe(a, b) == ~IsNaN(a) /\ ~IsNaN(b) /\ a.num * b.den <= b.num * a.den
RLt(a, b) == ~IsNaN(a) /\ ~IsNaN(b) /\ a.num * b.den < b.num * a.den

\* Python's min() and max() of a non-empty list of floats: the first element
\* is kept until a later one compares strictly below (above) it
RECURSIVE FoldMin(_, _)
FoldMin(best, xs) ==
    IF Len(xs) = 0 THEN best
    ELSE FoldMin(IF RLt(xs[1], best) THEN xs[1] ELSE best, Tail(xs))

RECURSIVE FoldMax(_, _)
FoldMax(best, xs) ==
    IF Len(xs) = 0 THEN best
    ELSE FoldMax(IF RLt(best, xs[1]) THEN xs[1] ELSE best, Tail(xs))

MinOf(xs) == FoldMin(xs[1], Tail(xs))

MaxOf(xs) == FoldMax(xs[1], Tail(xs))

(***************************************************************************)
(* Point and Bounds (NamedTuples).                                         *)
(***************************************************************************)
Point(x, y) == [x |-> x, y |-> y]
Bounds(min_point, max_point) == [min_point |-> min_point, max_point |-> max_point]

\* a point with integer coordinates
P(x, y) == Point(Float(x), Float(y))

(***************************************************************************)
(* Outcome of a call: a returned value or a raised exception.              *)
(***************************************************************************)
Ok(v) == [status |-> "ok", value |-> Some(v), exc |-> None]
Raise(e) == [status |-> "raised", value |-> None, exc |-> Some(e)]

ValueError(message) == [type |-> "ValueError", message |-> message]

(***************************************************************************)
(* numpy arrays: a sequence of rows.                                       *)
(***************************************************************************)
ArrayShape(m) == <<Len(m), Len(m[1])>>

\* ndarray.astype(np.float64)
AsFloat64(m) == [i \in 1..Len(m) |-> [j \in 1..Len(m[i]) |-> Float(m[i][j])]]

\* np.eye(3)
Eye3 == <<<<One, Zero, Zero>>, <<Zero, One, Zero>>, <<Zero, Zero, One>>>>

\* one entry of the matrix product a @ b of two 3x3 arrays
Dot3(a, b, i, j) ==
    RAdd(RAdd(RMul(a[i][1], b[1][j]), RMul(a[i][2], b[2][j])), RMul(a[i][3], b[3][j]))

\* a @ b for 3x3 arrays
MatMul(a, b) ==
    << <<Dot3(a, b, 1, 1), Dot3(a, b, 1, 2), Dot3(a, b, 1, 3)>>,
       <<Dot3(a, b, 2, 1), Dot3(a, b, 2, 2), Dot3(a, b, 2, 3)>>,
       <<Dot3(a, b, 3, 1), Dot3(a, b, 3, 2), Dot3(a, b, 3, 3)>> >>

\* a @ v for a 3x3 array and a 3-vector
MatVec(a, v) ==
    [i \in 1..3 |->
        RAdd(RAdd(RMul(a[i][1], v[1]), RMul(a[i][2], v[2])), RMul(a[i][3], v[3]))]

\* determinant of a 2x2 block
Det2(a, b, c, d) == RSub(RMul(a, d), RMul(b, c))

\* determinant of a 3x3 array
Det3(m) ==
    RAdd(RSub(RMul(m[1][1], Det2(m[2][2], m[2][3], m[3][2], m[3][3])),
              RMul(m[1][2], Det2(m[2][1], m[2][3], m[3][1], m[3][3]))),
         RMul(m[1][3], Det2(m[2][1], m[2][2], m[3][1], m[3][2])))

\* the adjugate (transposed cofactor matrix) of a 3x3 array
Adjugate(m) ==
    << <<Det2(m[2][2], m[2][3], m[3][2], m[3][3]),
         Det2(m[1][3], m[1][2], m[3][3], m[3][2]),
         Det2(m[1][2], m[1][3], m[2][2], m[2][3])>>,
       <<Det2(m[2][3], m[2][1], m[3][3], m[3][1]),
         Det2(m[1][1], m[1][3], m[3][1], m[3][3]),
         Det2(m[1][3], m[1][1], m[2][3], m[2][1])>>,
       <<Det2(m[2][1], m[2][2], m[3][1], m[3][2]),
         Det2(m[1][2], m[1][1], m[3][2], m[3][1]),
         Det2(m[1][1], m[1][2], m[2][1], m[2][2])>> >>

\* np.linalg.inv: the inverse, or LinAlgError for a singular matrix
LinalgInv(m) ==
    LET det == Det3(m)
        adj == Adjugate(m)
    IN  IF det = Zero
        THEN Raise([type |-> "LinAlgError", message |-> "Singular matrix"])
        ELSE Ok([i \in 1..3 |-> [j \in 1..3 |-> RDiv(adj[i][j], det)]])

(***************************************************************************)
(* np.cos(np.radians(angle)) and np.sin(np.radians(angle)), for the angles *)
(* of the model.  "atan(4/3)" is the angle of the 3-4-5 triangle, about    *)
(* 53.13 degrees.                                                          *)
(***************************************************************************)
Angles == {"0", "90", "180", "atan(4/3)"}

Cos(angle) ==
    CASE angle = "0" -> One
      [] angle = "90" -> Zero
      [] angle = "180" -> Float(-1)
      [] angle = "atan(4/3)" -> Norm(3, 5)

Sin(angle) ==
    CASE angle = "0" -> Zero
      [] angle = "90" -> One
      [] angle = "180" -> Zero
      [] angle = "atan(4/3)" -> Norm(4, 5)

(***************************************************************************)
(* class Transform                                                         *)
(***************************************************************************)
\* Transform.__init__(matrix): the new object, or ValueError
Transform(matrix) ==
    IF IsNone(matrix) THEN Ok([matrix |-> Eye3])
    ELSE IF ArrayShape(Get(matrix)) # <<3, 3>>
         THEN Raise(ValueError("Transform matrix must be 3x3"))
         ELSE Ok([matrix |-> AsFloat64(Get(matrix))])

\* a Transform built from a 3x3 array of floats (the constructor cannot fail)
TransformOf(m) == [matrix |-> m]

identity == Get(Transform(None).value)

\* translation with the offsets in the bottom row (the row-vector convention)
translation_transposed(dx, dy) ==
    TransformOf(<< <<One, Zero, Zero>>,
                   <<Zero, One, Zero>>,
                   <<Float(dx), Float(dy), One>> >>)

translation(dx, dy) ==
    TransformOf(<< <<One, Zero, Float(dx)>>,
                   <<Zero, One, Float(dy)>>,
                   <<Zero, Zero, One>> >>)

\* rotation whose center adjustment adds cy * cos_a where it should subtract
rotation_center_sign(angle, center) ==
    LET cos_a == Cos(angle)
        sin_a == Sin(angle)
    IN  IF IsNone(center)
        THEN TransformOf(<< <<cos_a, RNeg(sin_a), Zero>>,
                            <<sin_a, cos_a, Zero>>,
                            <<Zero, Zero, One>> >>)
        ELSE LET cx == Get(center).x
                 cy == Get(center).y
             IN  TransformOf(
                    << <<cos_a, RNeg(sin_a),
                         RAdd(RSub(cx, RMul(cx, cos_a)), RMul(cy, sin_a))>>,
                       <<sin_a, cos_a,
                         RAdd(RSub(cy, RMul(cx, sin_a)), RMul(cy, cos_a))>>,
                       <<Zero, Zero, One>> >>)

rotation(angle, center) ==
    LET cos_a == Cos(angle)
        sin_a == Sin(angle)
    IN  IF IsNone(center)
        THEN TransformOf(<< <<cos_a, RNeg(sin_a), Zero>>,
                            <<sin_a, cos_a, Zero>>,
                            <<Zero, Zero, One>> >>)
        ELSE LET cx == Get(center).x
                 cy == Get(center).y
             IN  TransformOf(
                    << <<cos_a, RNeg(sin_a),
                         RAdd(RSub(cx, RMul(cx, cos_a)), RMul(cy, sin_a))>>,
                       <<sin_a, cos_a,
                         RSub(RSub(cy, RMul(cx, sin_a)), RMul(cy, cos_a))>>,
                       <<Zero, Zero, One>> >>)

scale(sx, sy_arg, center) ==
    LET fx == Float(sx)
        fy == IF IsNone(sy_arg) THEN Float(sx) ELSE Float(Get(sy_arg))
    IN  IF IsNone(center)
        THEN TransformOf(<< <<fx, Zero, Zero>>,
                            <<Zero, fy, Zero>>,
                            <<Zero, Zero, One>> >>)
        ELSE LET cx == Get(center).x
                 cy == Get(center).y
             IN  TransformOf(
                    << <<fx, Zero, RMul(cx, RSub(One, fx))>>,
                       <<Zero, fy, RMul(cy, RSub(One, fy))>>,
                       <<Zero, Zero, One>> >>)

\* compose with the operands of the product swapped
compose_swapped(self, other) == TransformOf(MatMul(other.matrix, self.matrix))

compose(self, other) == TransformOf(MatMul(self.matrix, other.matrix))

\* apply_to_point on the vector [x, y, 0]: the translation column is lost
apply_to_point_linear(self, point) ==
    LET vec == <<point.x, point.y, Zero>>
        result == MatVec(self.matrix, vec)
    IN  Point(result[1], result[2])

apply_to_point(self, point) ==
    LET vec == <<point.x, point.y, One>>
        result == MatVec(self.matrix, vec)
    IN  Point(result[1], result[2])

\* inverse that returns the adjugate without dividing by the determinant
inverse_adjugate(self) ==
    IF Det3(self.matrix) = Zero
    THEN Raise(ValueError("Transform is not invertible"))
    ELSE Ok(TransformOf(Adjugate(self.matrix)))

\* Transform.inverse(): the inverse Transform, or ValueError
inverse(self) ==
    LET inv_matrix == LinalgInv(self.matrix)
    IN  IF inv_matrix.status = "raised"
        THEN Raise(ValueError("Transform is not invertible"))
        ELSE Ok(TransformOf(Get(inv_matrix.value)))

(***************************************************************************)
(* class Style, shape identifiers, ShapeValidationError.                   *)
(***************************************************************************)
\* Style(...): the pydantic model with its five fields
Style(fill_color, stroke_color, stroke_width, fill_opacity, stroke_opacity) ==
    [fill_color |-> fill_color, stroke_color |-> stroke_color,
     stroke_width |-> stroke_width, fill_opacity |-> fill_opacity,
     stroke_opacity |-> stroke_opacity]

\* Style() with every field at its default
DefaultStyle == Style(None, None, One, One, One)

\* str(uuid.uuid4()): the n-th identifier generated
Uuid4(n) == "uuid4-" \o ToString(n)

\* bool(x) of an Optional[str] argument: None and "" are falsy
Truthy(o) == ~IsNone(o) /\ Get(o) # ""

ShapeValidationError(shape_type, validation_error, shape_id) ==
    [type |-> "ShapeValidationError", shape_type |-> shape_type,
     validation_error |-> validation_error, shape_id |-> shape_id]

\* an outcome together with the number of uuid4 identifiers generated so far
Using(outcome, n) ==
    [status |-> outcome.status, value |-> outcome.value, exc |-> outcome.exc,
     uuids |-> n]

\* the keyword arguments common to every shape constructor
Kw(layer_id, group_id, visible, locked, style, transform, metadata, shape_id) ==
    [layer_id |-> layer_id, group_id |-> group_id, visible |-> visible,
     locked |-> locked, style |-> style, transform |-> transform,
     metadata |-> metadata, shape_id |-> shape_id]

(***************************************************************************)
(* class Shape                                                             *)
(***************************************************************************)
\* Shape.__init__ that generates the id whatever shape_id is
Shape_generated_id(shape_type, kw, n) ==
    LET id == Uuid4(n + 1)
        fields ==
            [id |-> id,
             type |-> shape_type,
             layer_id |-> kw.layer_id,
             group_id |-> kw.group_id,
             visible |-> kw.visible,
             locked |-> kw.locked,
             style |-> IF IsNone(kw.style) THEN DefaultStyle ELSE Get(kw.style),
             transform |-> IF IsNone(kw.transform) THEN identity ELSE Get(kw.transform),
             metadata |-> IF IsNone(kw.metadata) \/ Get(kw.metadata) = {}
                          THEN {} ELSE Get(kw.metadata)]
    IN  IF kw.layer_id = ""
        THEN Using(Raise(ShapeValidationError(shape_type,
                            [text |-> "layer_id cannot be empty", got |-> None],
                            Some(id))), n + 1)
        ELSE Using(Ok(fields), n + 1)

\* Shape.__init__: the common fields, or ShapeValidationError; n identifiers
\* have been generated before the call
Shape(shape_type, kw, n) ==
    LET generate == ~Truthy(kw.shape_id)
        id == IF generate THEN Uuid4(n + 1) ELSE Get(kw.shape_id)
        used == IF generate THEN n + 1 ELSE n
        fields ==
            [id |-> id,
             type |-> shape_type,
             layer_id |-> kw.layer_id,
             group_id |-> kw.group_id,
             visible |-> kw.visible,
             locked |-> kw.locked,
             style |-> IF IsNone(kw.style) THEN DefaultStyle ELSE Get(kw.style),
             transform |-> IF IsNone(kw.transform) THEN identity ELSE Get(kw.transform),
             metadata |-> IF IsNone(kw.metadata) \/ Get(kw.metadata) = {}
                          THEN {} ELSE Get(kw.metadata)]
    IN  IF kw.layer_id = ""
        THEN Using(Raise(ShapeValidationError(shape_type,
                            [text |-> "layer_id cannot be empty", got |-> None],
                            Some(id))), used)
        ELSE Using(Ok(fields), used)

(***************************************************************************)
(* class Rectangle                                                         *)
(***************************************************************************)
\* Rectangle.__init__: the new rectangle, or ShapeValidationError
Rectangle(x, y, width, height, corner_radius, kw, n) ==
    LET max_radius == RDiv(MinOf(<<width, height>>), Float(2))
        geometry(text, got) ==
            Using(Raise(ShapeValidationError("RECTANGLE",
                            [text |-> text, got |-> Some(got)], kw.shape_id)), n)
        base == Shape("RECTANGLE", kw, n)
    IN  IF RLe(width, Zero) THEN geometry("Width must be positive", width)
        ELSE IF RLe(height, Zero) THEN geometry("Height must be positive", height)
        ELSE IF RLt(corner_radius, Zero)
             THEN geometry("Corner radius cannot be negative", corner_radius)
        ELSE IF RLt(max_radius, corner_radius)
             THEN geometry("Corner radius exceeds maximum allowed", corner_radius)
        ELSE IF base.status = "raised" THEN base
        ELSE LET b == Get(base.value)
             IN  Using(Ok([id |-> b.id, type |-> b.type, layer_id |-> b.layer_id,
                           group_id |-> b.group_id, visible |-> b.visible,
                           locked |-> b.locked, style |-> b.style,
                           transform |-> b.transform, metadata |-> b.metadata,
                           x |-> x, y |-> y, width |-> width, height |-> height,
                           corner_radius |-> corner_radius]),
                       base.uuids)

\* the four corners, in the order the source lists them
Rectangle_corners(self) ==
    << Point(self.x, self.y),
       Point(RAdd(self.x, self.width), self.y),
       Point(RAdd(self.x, self.width), RAdd(self.y, self.height)),
       Point(self.x, RAdd(self.y, self.height)) >>

\* the box of a list of points with min(y_coords) pasted into max_point
BoundsOfPoints_pasted(points) ==
    LET x_coords == [k \in 1..Len(points) |-> points[k].x]
        y_coords == [k \in 1..Len(points) |-> points[k].y]
    IN  Bounds(Point(MinOf(x_coords), MinOf(y_coords)),
               Point(MaxOf(x_coords), MinOf(y_coords)))

\* the box spanned by a list of points
BoundsOfPoints(points) ==
    LET x_coords == [k \in 1..Len(points) |-> points[k].x]
        y_coords == [k \in 1..Len(points) |-> points[k].y]
    IN  Bounds(Point(MinOf(x_coords), MinOf(y_coords)),
               Point(MaxOf(x_coords), MaxOf(y_coords)))

\* Rectangle.get_bounds that transforms two opposite corners only
Rectangle_get_bounds_two_corners(self) ==
    LET corners == Rectangle_corners(self)
    IN  BoundsOfPoints(<<apply_to_point(self.transform, corners[1]),
                         apply_to_point(self.transform, corners[3])>>)

Rectangle_get_bounds(self) ==
    LET corners == Rectangle_corners(self)
        transformed_corners ==
            [k \in 1..Len(corners) |-> apply_to_point(self.transform, corners[k])]
    IN  BoundsOfPoints(transformed_corners)

\* Rectangle.apply_transform that composes in the opposite order
Rectangle_apply_transform_swapped(self, transform, n) ==
    Rectangle(self.x, self.y, self.width, self.height, self.corner_radius,
              Kw(self.layer_id, self.group_id, self.visible, self.locked,
                 Some(self.style), Some(compose(transform, self.transform)),
                 Some(self.metadata), Some(self.id)), n)

\* Rectangle.apply_transform that does not pass visible and locked on
Rectangle_apply_transform_defaults(self, transform, n) ==
    Rectangle(self.x, self.y, self.width, self.height, self.corner_radius,
              Kw(self.layer_id, self.group_id, TRUE, FALSE,
                 Some(self.style), Some(compose(self.transform, transform)),
                 Some(self.metadata), Some(self.id)), n)

Rectangle_apply_transform(self, transform, n) ==
    LET new_transform == compose(self.transform, transform)
    IN  Rectangle(self.x, self.y, self.width, self.height, self.corner_radius,
                  Kw(self.layer_id, self.group_id, self.visible, self.locked,
                     Some(self.style), Some(new_transform), Some(self.metadata),
                     Some(self.id)), n)

(***************************************************************************)
(* class Circle                                                            *)
(***************************************************************************)
\* Circle.__init__ that rejects a negative radius only
Circle_negative_only(cx, cy, radius, kw, n) ==
    LET base == Shape("CIRCLE", kw, n)
    IN  IF RLt(radius, Zero)
        THEN Using(Raise(ShapeValidationError("CIRCLE",
                            [text |-> "Radius must be positive", got |-> Some(radius)],
                            kw.shape_id)), n)
        ELSE IF base.status = "raised" THEN base
        ELSE LET b == Get(base.value)
             IN  Using(Ok([id |-> b.id, type |-> b.type, layer_id |-> b.layer_id,
                           group_id |-> b.group_id, visible |-> b.visible,
                           locked |-> b.locked, style |-> b.style,
                           transform |-> b.transform, metadata |-> b.metadata,
                           cx |-> cx, cy |-> cy, radius |-> radius]),
                       base.uuids)

\* Circle.__init__: the new circle, or ShapeValidationError
Circle(cx, cy, radius, kw, n) ==
    LET base == Shape("CIRCLE", kw, n)
    IN  IF RLe(radius, Zero)
        THEN Using(Raise(ShapeValidationError("CIRCLE",
                            [text |-> "Radius must be positive", got |-> Some(radius)],
                            kw.shape_id)), n)
        ELSE IF base.status = "raised" THEN base
        ELSE LET b == Get(base.value)
             IN  Using(Ok([id |-> b.id, type |-> b.type, layer_id |-> b.layer_id,
                           group_id |-> b.group_id, visible |-> b.visible,
                           locked |-> b.locked, style |-> b.style,
                           transform |-> b.transform, metadata |-> b.metadata,
                           cx |-> cx, cy |-> cy, radius |-> radius]),
                       base.uuids)

\* the angles [0, pi/2, pi, 3*pi/2] with np.cos and np.sin of each
CardinalAngles ==
    << [cos |-> One, sin |-> Zero],
       [cos |-> Zero, sin |-> One],
       [cos |-> Float(-1), sin |-> Zero],
       [cos |-> Zero, sin |-> Float(-1)] >>

\* the point of the circle at one of the angles
Circle_point(self, angle) ==
    Point(RAdd(self.cx, RMul(self.radius, angle.cos)),
          RAdd(self.cy, RMul(self.radius, angle.sin)))

\* Circle.get_bounds that looks at the angles 0 and pi/2 only
Circle_get_bounds_two_angles(self) ==
    BoundsOfPoints(
        [k \in 1..2 |-> apply_to_point(self.transform,
                                       Circle_point(self, CardinalAngles[k]))]
        \o <<apply_to_point(self.transform, Point(self.cx, self.cy))>>)

Circle_get_bounds(self) ==
    LET angles == CardinalAngles
        points ==
            [k \in 1..Len(angles) |->
                apply_to_point(self.transform, Circle_point(self, angles[k]))]
        center == Point(self.cx, self.cy)
        transformed_center == apply_to_point(self.transform, center)
    IN  BoundsOfPoints(points \o <<transformed_center>>)

Circle_apply_transform(self, transform, n) ==
    LET new_transform == compose(self.transform, transform)
    IN  Circle(self.cx, self.cy, self.radius,
               Kw(self.layer_id, self.group_id, self.visible, self.locked,
                  Some(self.style), Some(new_transform), Some(self.metadata),
                  Some(self.id)), n)

\* shape.get_bounds(), dispatched on the class of the shape
get_bounds(self) ==
    IF self.type = "RECTANGLE" THEN Rectangle_get_bounds(self)
    ELSE Circle_get_bounds(self)

\* shape.apply_transform(transform), dispatched on the class of the shape
apply_transform(self, transform, n) ==
    IF self.type = "RECTANGLE" THEN Rectangle_apply_transform(self, transform, n)
    ELSE Circle_apply_transform(self, transform, n)

(***************************************************************************)
(* The record of the last call.  self, other and result are positions in   *)
(* transforms (or in shapes, for shape operations); 0 stands for "none".   *)
(***************************************************************************)
Call(op, self, other, arg, outcome, result) ==
    [op |-> op, self |-> self, other |-> other, arg |-> arg,
     status |-> outcome.status, exc |-> outcome.exc,
     value |-> IF result = 0 THEN outcome.value ELSE None,
     result |-> result]

NoCall == Call("none", 0, 0, None, [status |-> "none", value |-> None, exc |-> None], 0)

\* no Document has been constructed
NoDocument == None

Init ==
    /\ transforms = <<>>
    /\ shapes = <<>>
    /\ applied = <<>>
    /\ uuids = 0
    /\ last = NoCall
    /\ heap = <<>>
    /\ refs = {}
    /\ document = NoDocument

(***************************************************************************)
(* Arguments the caller draws from.                                        *)
(***************************************************************************)
\* raw arrays handed to Transform(...): a shear, an invertible matrix whose
\* bottom row is not [0, 0, 1], a singular matrix, and a 2x2 array
ShearMatrix == << <<1, 1, 0>>, <<0, 1, 0>>, <<0, 0, 1>> >>
ProjectiveMatrix == << <<1, 0, 1>>, <<0, 1, 0>>, <<0, 0, 2>> >>
SingularMatrix == << <<1, 0, 0>>, <<0, 0, 0>>, <<0, 0, 1>> >>
SmallMatrix == << <<1, 0>>, <<0, 1>> >>

RawMatrices == {ShearMatrix, ProjectiveMatrix, SingularMatrix, SmallMatrix}

TranslationArgs == {<<10, 20>>}
RotationArgs == {<<"90", None>>, <<"180", Some(P(10, 10))>>}
ScaleArgs == {<<2, None, None>>, <<2, Some(3), Some(P(10, 10))>>}
Points == {P(10, 20), P(-3, 7)}

(***************************************************************************)
(* Calls on Transform: every constructor and method appends the Transform  *)
(* it returns to the objects the caller holds.                             *)
(***************************************************************************)
\* the caller keeps the object an outcome returned, if any
Keep(pool, outcome) ==
    IF outcome.status = "ok" THEN Append(pool, Get(outcome.value)) ELSE pool

\* position of the object an outcome returned, 0 if it raised
Kept(pool, outcome) == IF outcome.status = "ok" THEN Len(pool) + 1 ELSE 0

CallTransform(matrix) ==
    LET outcome == Transform(matrix)
    IN  /\ Len(transforms) < MaxTransforms
        /\ transforms' = Keep(transforms, outcome)
        /\ last' = Call("Transform", 0, 0, matrix, outcome, Kept(transforms, outcome))
        /\ UNCHANGED <<shapes, applied, uuids, heap, refs, document>>

CallIdentity ==
    LET outcome == Ok(identity)
    IN  /\ Len(transforms) < MaxTransforms
        /\ transforms' = Keep(transforms, outcome)
        /\ last' = Call("identity", 0, 0, None, outcome, Kept(transforms, outcome))
        /\ UNCHANGED <<shapes, applied, uuids, heap, refs, document>>

CallTranslation(dx, dy) ==
    LET outcome == Ok(translation(dx, dy))
    IN  /\ Len(transforms) < MaxTransforms
        /\ transforms' = Keep(transforms, outcome)
        /\ last' = Call("translation", 0, 0, Some(<<dx, dy>>), outcome,
                        Kept(transforms, outcome))
        /\ UNCHANGED <<shapes, applied, uuids, heap, refs, document>>

CallRotation(angle, center) ==
    LET outcome == Ok(rotation(angle, center))
    IN  /\ Len(transforms) < MaxTransforms
        /\ transforms' = Keep(transforms, outcome)
        /\ last' = Call("rotation", 0, 0, Some(<<angle, center>>), outcome,
                        Kept(transforms, outcome))
        /\ UNCHANGED <<shapes, applied, uuids, heap, refs, document>>

CallScale(sx, sy, center) ==
    LET outcome == Ok(scale(sx, sy, center))
    IN  /\ Len(transforms) < MaxTransforms
        /\ transforms' = Keep(transforms, outcome)
        /\ last' = Call("scale", 0, 0, Some(<<sx, sy, center>>), outcome,
                        Kept(transforms, outcome))
        /\ UNCHANGED <<shapes, applied, uuids, heap, refs, document>>

CallCompose(self, other) ==
    LET outcome == Ok(compose(transforms[self], transforms[other]))
    IN  /\ Len(transforms) < MaxTransforms
        /\ transforms' = Keep(transforms, outcome)
        /\ last' = Call("compose", self, other, None, outcome, Kept(transforms, outcome))
        /\ UNCHANGED <<shapes, applied, uuids, heap, refs, document>>

CallInverse(self) ==
    LET outcome == inverse(transforms[self])
    IN  /\ Len(transforms) < MaxTransforms
        /\ transforms' = Keep(transforms, outcome)
        /\ last' = Call("inverse", self, 0, None, outcome, Kept(transforms, outcome))
        /\ UNCHANGED <<shapes, applied, uuids, heap, refs, document>>

CallApplyToPoint(self, point) ==
    /\ last' = Call("apply_to_point", self, 0, Some(point),
                    Ok(apply_to_point(transforms[self], point)), 0)
    /\ UNCHANGED <<transforms, shapes, applied, uuids, heap, refs, document>>

NextTransform ==
    \/ \E matrix \in {None} \cup {Some(m) : m \in RawMatrices} : CallTransform(matrix)
    \/ CallIdentity
    \/ \E a \in TranslationArgs : CallTranslation(a[1], a[2])
    \/ \E a \in RotationArgs : CallRotation(a[1], a[2])
    \/ \E a \in ScaleArgs : CallScale(a[1], a[2], a[3])
    \/ \E self \in DOMAIN transforms : \E other \in DOMAIN transforms :
            CallCompose(self, other)
    \/ \E self \in DOMAIN transforms : CallInverse(self)
    \/ \E self \in DOMAIN transforms : \E point \in Points :
            CallApplyToPoint(self, point)

SpecTransform == Init /\ [][NextTransform]_vars

(***************************************************************************)
(* Calls on shapes.  The constructors take their arguments from the sets   *)
(* below; apply_transform appends the shape it returns.                    *)
(***************************************************************************)
MaxRoots == 1

RedStyle == Style(Some("#FF0000"), None, One, One, One)

\* transforms handed to the shape constructors
ScaleThenTranslate10 == compose(scale(2, None, None), translation(10, 20))
ScaleThenTranslate50 == compose(scale(2, None, None), translation(50, 50))
ShearTransform == Get(Transform(Some(ShearMatrix)).value)
ProjectiveTransform == Get(Transform(Some(ProjectiveMatrix)).value)

\* keyword arguments: the defaults, with the given transform
Plain(layer_id, transform) ==
    Kw(layer_id, None, TRUE, FALSE, None, transform, None, None)

\* keyword arguments with every optional one given
FullKw ==
    Kw("layer1", Some("group1"), FALSE, TRUE, Some(RedStyle),
       Some(translation(10, 20)), Some({<<"name", "test">>}), Some("shape-1"))

\* the constructor calls Rectangle(x, y, width, height, corner_radius, **kw);
\* the last three are invalid (zero width, negative height, empty layer_id)
RectangleCalls ==
    { <<0, 0, 100, 50, 0, Plain("layer1", None)>>,
      <<0, 0, 100, 50, 0, Plain("layer1", Some(rotation("atan(4/3)", None)))>>,
      <<10, 20, 100, 50, 5, FullKw>>,
      <<10, 20, 100, 50, 0, Plain("layer1", Some(ScaleThenTranslate10))>>,
      <<10, 20, 100, 50, 0, Plain("layer1", Some(ScaleThenTranslate50))>>,
      <<0, 0, 0, 50, 0, Plain("layer1", None)>>,
      <<10, 20, 100, -50, 5, FullKw>>,
      <<0, 0, 100, 50, 0, Plain("", None)>> }

\* the constructor calls Circle(cx, cy, radius, **kw); the last three
\* are invalid (zero radius, negative radius, empty layer_id)
CircleCalls ==
    { <<50, 50, 25, Plain("layer1", None)>>,
      <<50, 50, 25, FullKw>>,
      <<0, 0, 5, Plain("layer1", Some(rotation("atan(4/3)", None)))>>,
      <<50, 50, 25, Plain("layer1", Some(scale(2, Some(3), None)))>>,
      <<0, 0, 5, Plain("layer1", Some(ShearTransform))>>,
      <<0, 0, 0, Plain("layer1", None)>>,
      <<50, 50, -25, FullKw>>,
      <<50, 50, 25, Plain("", None)>> }

\* transforms handed to apply_transform
ApplyArgs == {scale(2, None, None), translation(10, 20), ProjectiveTransform}

\* the history of a shape straight from its constructor
Fresh(shape) == [base |-> shape.transform, seq |-> <<>>]

CallRectangle(a) ==
    LET outcome == Rectangle(Float(a[1]), Float(a[2]), Float(a[3]), Float(a[4]),
                             Float(a[5]), a[6], uuids)
    IN  /\ Len(shapes) < MaxRoots
        /\ outcome.uuids <= MaxUuids
        /\ shapes' = Keep(shapes, outcome)
        /\ applied' = IF outcome.status = "ok"
                      THEN Append(applied, Fresh(Get(outcome.value))) ELSE applied
        /\ uuids' = outcome.uuids
        /\ last' = Call("Rectangle", 0, 0, Some(a), outcome, Kept(shapes, outcome))
        /\ UNCHANGED <<transforms, heap, refs, document>>

CallCircle(a) ==
    LET outcome == Circle(Float(a[1]), Float(a[2]), Float(a[3]), a[4], uuids)
    IN  /\ Len(shapes) < MaxRoots
        /\ outcome.uuids <= MaxUuids
        /\ shapes' = Keep(shapes, outcome)
        /\ applied' = IF outcome.status = "ok"
                      THEN Append(applied, Fresh(Get(outcome.value))) ELSE applied
        /\ uuids' = outcome.uuids
        /\ last' = Call("Circle", 0, 0, Some(a), outcome, Kept(shapes, outcome))
        /\ UNCHANGED <<transforms, heap, refs, document>>

CallApplyTransform(self, transform) ==
    LET outcome == apply_transform(shapes[self], transform, uuids)
    IN  /\ Len(shapes) < MaxShapes
        /\ shapes' = Keep(shapes, outcome)
        /\ applied' = IF outcome.status = "ok"
                      THEN Append(applied,
                                  [base |-> applied[self].base,
                                   seq |-> Append(applied[self].seq, transform)])
                      ELSE applied
        /\ uuids' = outcome.uuids
        /\ last' = Call("apply_transform", self, 0, Some(transform), outcome,
                        Kept(shapes, outcome))
        /\ UNCHANGED <<transforms, heap, refs, document>>

CallGetBounds(self) ==
    /\ last' = Call("get_bounds", self, 0, None, Ok(get_bounds(shapes[self])), 0)
    /\ UNCHANGED <<transforms, shapes, applied, uuids, heap, refs, document>>

NextShape ==
    \/ \E a \in RectangleCalls : CallRectangle(a)
    \/ \E a \in CircleCalls : CallCircle(a)
    \/ \E self \in DOMAIN shapes : \E transform \in ApplyArgs :
            CallApplyTransform(self, transform)
    \/ \E self \in DOMAIN shapes : CallGetBounds(self)

SpecShape == Init /\ [][NextShape]_vars

(***************************************************************************)
(* Properties of the Transform algebra.                                    *)
(***************************************************************************)
\* the bottom row of the matrix is [0, 0, 1]
IsAffine(t) == t.matrix[3] = <<Zero, Zero, One>>

\* the Transform objects held before a step are the same objects after it
TransformsKept ==
    /\ Len(transforms') >= Len(transforms)
    /\ \A i \in DOMAIN transforms : transforms'[i] = transforms[i]

\* the composed transform maps every point as other first, then self
ComposedAppliesOtherFirst ==
    \A p \in Points :
        apply_to_point(transforms[last.result], p)
            = apply_to_point(transforms[last.self],
                             apply_to_point(transforms[last.other], p))

\* C1 as stated: for all transforms A, B and every point p,
\* A.compose(B).apply_to_point(p) = A.apply_to_point(B.apply_to_point(p)).
C1_ComposeAllTransforms ==
    last.op = "compose" => ComposedAppliesOtherFirst

\* C1 amended: the equation holds for all A and every B whose bottom row is
\* [0, 0, 1] (apply_to_point drops the third homogeneous coordinate).
C1_ComposeAffineOther ==
    (last.op = "compose" /\ IsAffine(transforms[last.other]))
        => ComposedAppliesOtherFirst

\* a compose of two affine transforms that do not commute has acted
C1_Witness ==
    /\ last.op = "compose"
    /\ IsAffine(transforms[last.other])
    /\ MatMul(transforms[last.self].matrix, transforms[last.other].matrix)
         # MatMul(transforms[last.other].matrix, transforms[last.self].matrix)

\* inverse() undoes the transform on every point
InverseRoundTrip ==
    \A p \in Points :
        apply_to_point(transforms'[last'.result],
                       apply_to_point(transforms[last'.self], p)) = p

\* C9 as stated: for every invertible T and every point p,
\* T.inverse().apply_to_point(T.apply_to_point(p)) = p, and inverse() returns a
\* new Transform without changing T.
C9_InverseAllTransforms ==
    [][(last'.op = "inverse" /\ last'.status = "ok" /\ Len(transforms') > Len(transforms))
         => (InverseRoundTrip /\ TransformsKept)]_vars

\* C9 amended: the round trip holds for every invertible T whose bottom row is
\* [0, 0, 1]; inverse() of any invertible T returns a new Transform and leaves
\* T as it was.
C9_InverseAffine ==
    [][(last'.op = "inverse" /\ last'.status = "ok" /\ Len(transforms') > Len(transforms))
         => /\ IsAffine(transforms[last'.self]) => InverseRoundTrip
            /\ TransformsKept
            /\ last'.result = Len(transforms) + 1]_vars

\* inverse() has returned for an affine transform that moves points
C9_Witness ==
    /\ last.op = "inverse"
    /\ last.status = "ok"
    /\ IsAffine(transforms[last.self])
    /\ \E p \in Points : apply_to_point(transforms[last.self], p) # p

\* C10: a failing Transform operation (inverse() of a singular matrix, the
\* constructor on a matrix that is not 3x3) raises the TransformError kind and
\* returns no Transform.
C10_TransformErrorKind ==
    (last.op \in {"inverse", "Transform"} /\ last.status = "raised")
        => /\ Get(last.exc).type = "TransformError"
           /\ last.result = 0

(***************************************************************************)
(* Properties of the bounding boxes.                                       *)
(***************************************************************************)
RSq(a) == RMul(a, a)

\* the shape get_bounds was last called on, and the box it returned
Bounded == shapes[last.self]
Box == Get(last.value)

GotBoundsOf(type) == last.op = "get_bounds" /\ Bounded.type = type

\* the box contains the point
InBox(b, q) ==
    /\ RLe(b.min_point.x, q.x) /\ RLe(q.x, b.max_point.x)
    /\ RLe(b.min_point.y, q.y) /\ RLe(q.y, b.max_point.y)

\* each side of the box passes through one of the points
TouchesAll(b, pts) ==
    /\ \E q \in pts : q.x = b.min_point.x
    /\ \E q \in pts : q.x = b.max_point.x
    /\ \E q \in pts : q.y = b.min_point.y
    /\ \E q \in pts : q.y = b.max_point.y

\* the images of the four corners (x,y), (x+w,y), (x+w,y+h), (x,y+h)
CornerImages(r) ==
    { apply_to_point(r.transform, Point(RAdd(r.x, dx), RAdd(r.y, dy))) :
        <<dx, dy>> \in {<<Zero, Zero>>, <<r.width, Zero>>,
                        <<r.width, r.height>>, <<Zero, r.height>>} }

\* C2: Rectangle.get_bounds() is the componentwise minimum and maximum of the
\* transform applied to the four corners; under the identity transform it is
\* exactly Bounds((x, y), (x + w, y + h)).
C2_RectangleBounds ==
    GotBoundsOf("RECTANGLE") =>
        /\ \A q \in CornerImages(Bounded) : InBox(Box, q)
        /\ TouchesAll(Box, CornerImages(Bounded))
        /\ Bounded.transform = identity =>
              Box = Bounds(Point(Bounded.x, Bounded.y),
                           Point(RAdd(Bounded.x, Bounded.width),
                                 RAdd(Bounded.y, Bounded.height)))

\* get_bounds has returned for a rectangle whose transform turns it off the axes
C2_Witness ==
    /\ GotBoundsOf("RECTANGLE")
    /\ Bounded.transform.matrix[1][2] # Zero
    /\ Bounded.transform.matrix[1][1] # Zero

(***************************************************************************)
(* The true bounding box of a transformed circle.  A circle of radius r    *)
(* about c is mapped by the matrix rows (a, b, tx), (c, d, ty) onto the    *)
(* ellipse about the image of c whose half-extents are r*sqrt(a^2 + b^2)   *)
(* along x and r*sqrt(c^2 + d^2) along y; the squares avoid the roots.     *)
(***************************************************************************)
CenterImage(c) == apply_to_point(c.transform, Point(c.cx, c.cy))

TrueHalfWidthSq(c) ==
    RMul(RSq(c.radius),
         RAdd(RSq(c.transform.matrix[1][1]), RSq(c.transform.matrix[1][2])))

TrueHalfHeightSq(c) ==
    RMul(RSq(c.radius),
         RAdd(RSq(c.transform.matrix[2][1]), RSq(c.transform.matrix[2][2])))

\* the four distances from the image of the center to the sides of the box
Left(b, c) == RSub(CenterImage(c).x, b.min_point.x)
Right(b, c) == RSub(b.max_point.x, CenterImage(c).x)
Below(b, c) == RSub(CenterImage(c).y, b.min_point.y)
Above(b, c) == RSub(b.max_point.y, CenterImage(c).y)

\* the box lies inside the true bounding box
InsideTrueBox(b, c) ==
    /\ InBox(b, CenterImage(c))
    /\ RLe(RSq(Left(b, c)), TrueHalfWidthSq(c))
    /\ RLe(RSq(Right(b, c)), TrueHalfWidthSq(c))
    /\ RLe(RSq(Below(b, c)), TrueHalfHeightSq(c))
    /\ RLe(RSq(Above(b, c)), TrueHalfHeightSq(c))

\* the box is the true bounding box
IsTrueBox(b, c) ==
    /\ InBox(b, CenterImage(c))
    /\ RSq(Left(b, c)) = TrueHalfWidthSq(c)
    /\ RSq(Right(b, c)) = TrueHalfWidthSq(c)
    /\ RSq(Below(b, c)) = TrueHalfHeightSq(c)
    /\ RSq(Above(b, c)) = TrueHalfHeightSq(c)

\* the box underestimates: inside the true bounding box and not equal to it
Underestimates(b, c) == InsideTrueBox(b, c) /\ ~IsTrueBox(b, c)

\* kinds of transform, read off the matrix
IsTranslation(t) ==
    /\ IsAffine(t)
    /\ t.matrix[1][1] = One /\ t.matrix[1][2] = Zero
    /\ t.matrix[2][1] = Zero /\ t.matrix[2][2] = One

IsScale(t) ==
    /\ IsAffine(t)
    /\ t.matrix[1][2] = Zero /\ t.matrix[2][1] = Zero

IsUniformScale(t) == IsScale(t) /\ t.matrix[1][1] = t.matrix[2][2]

IsNonUniformScale(t) == IsScale(t) /\ t.matrix[1][1] # t.matrix[2][2]

IsRotation(t) ==
    /\ IsAffine(t)
    /\ t.matrix[1][1] = t.matrix[2][2]
    /\ t.matrix[1][2] = RNeg(t.matrix[2][1])
    /\ RAdd(RSq(t.matrix[1][1]), RSq(t.matrix[2][1])) = One

IsShear(t) ==
    /\ IsAffine(t)
    /\ t.matrix[1][1] = One /\ t.matrix[2][2] = One
    /\ t.matrix[1][3] = Zero /\ t.matrix[2][3] = Zero
    /\ \/ t.matrix[1][2] # Zero /\ t.matrix[2][1] = Zero
       \/ t.matrix[1][2] = Zero /\ t.matrix[2][1] # Zero

\* C3: Circle.get_bounds() is the true bounding box whenever the transform is a
\* translation, a uniform scale or a rotation by any angle.
C3_ExactWhenCircularityKept ==
    (/\ GotBoundsOf("CIRCLE")
     /\ \/ IsTranslation(Bounded.transform)
        \/ IsUniformScale(Bounded.transform)
        \/ IsRotation(Bounded.transform))
        => IsTrueBox(Box, Bounded)

\* C4 as stated: under a non-uniform scale or a shear, Circle.get_bounds() is
\* strictly smaller than the true bounding box.
C4_UnderestimatesScaleAndShear ==
    (/\ GotBoundsOf("CIRCLE")
     /\ IsNonUniformScale(Bounded.transform) \/ IsShear(Bounded.transform))
        => Underestimates(Box, Bounded)

\* C4 amended: under a shear Circle.get_bounds() underestimates the true
\* bounding box; under a non-uniform scale (sx # sy) it does not: the box it
\* returns is the true bounding box.
C4_ShearUnderestimatesScaleExact ==
    GotBoundsOf("CIRCLE") =>
        /\ IsShear(Bounded.transform) => Underestimates(Box, Bounded)
        /\ IsNonUniformScale(Bounded.transform) => IsTrueBox(Box, Bounded)

\* get_bounds has returned for a circle under a non-uniform scale
C4_Witness ==
    /\ GotBoundsOf("CIRCLE")
    /\ IsNonUniformScale(Bounded.transform)

\* C5: under the identity transform Circle.get_bounds() equals
\* Bounds((cx - r, cy - r), (cx + r, cy + r)).
C5_CircleIdentityBounds ==
    (GotBoundsOf("CIRCLE") /\ Bounded.transform = identity) =>
        Box = Bounds(Point(RSub(Bounded.cx, Bounded.radius),
                           RSub(Bounded.cy, Bounded.radius)),
                     Point(RAdd(Bounded.cx, Bounded.radius),
                           RAdd(Bounded.cy, Bounded.radius)))

\* get_bounds has returned for a circle with the identity transform
C5_Witness ==
    /\ GotBoundsOf("CIRCLE")
    /\ Bounded.transform = identity
    /\ Bounded.cx # Zero

(***************************************************************************)
(* Properties of apply_transform.                                          *)
(***************************************************************************)
\* the fields of a shape other than its transform
Untransformed(shape) ==
    IF shape.type = "RECTANGLE"
    THEN <<shape.type, shape.id, shape.layer_id, shape.group_id, shape.visible,
           shape.locked, shape.style, shape.metadata,
           shape.x, shape.y, shape.width, shape.height, shape.corner_radius>>
    ELSE <<shape.type, shape.id, shape.layer_id, shape.group_id, shape.visible,
           shape.locked, shape.style, shape.metadata,
           shape.cx, shape.cy, shape.radius>>

\* C6: s.apply_transform(t) returns a new shape of the same variant whose
\* transform is s.transform.compose(t) and whose id, geometric fields,
\* layer_id, group_id, visible, locked, style and metadata are those of s; s
\* reports the same fields and the same transform after the call as before.
C6_ApplyTransformCopies ==
    [][last'.op = "apply_transform" =>
        /\ last'.status = "ok"
        /\ last'.result = Len(shapes) + 1
        /\ Len(shapes') = Len(shapes) + 1
        /\ Untransformed(shapes'[last'.result]) = Untransformed(shapes[last'.self])
        /\ shapes'[last'.result].transform
             = compose(shapes[last'.self].transform, Get(last'.arg))
        /\ \A i \in DOMAIN shapes : shapes'[i] = shapes[i]]_vars

\* apply_transform has returned for a hidden, locked, grouped shape that
\* already had a transform, with an argument that does not commute with it
C6_Witness ==
    /\ last.op = "apply_transform"
    /\ last.status = "ok"
    /\ ~shapes[last.self].visible
    /\ shapes[last.self].locked
    /\ shapes[last.self].metadata # {}
    /\ compose(shapes[last.self].transform, Get(last.arg))
         # compose(Get(last.arg), shapes[last.self].transform)

\* t1.compose(t2)...compose(tn), the identity for the empty sequence
RECURSIVE ComposeAll(_)
ComposeAll(ts) ==
    IF Len(ts) = 0 THEN identity
    ELSE IF Len(ts) = 1 THEN ts[1]
    ELSE compose(ComposeAll(SubSeq(ts, 1, Len(ts) - 1)), ts[Len(ts)])

\* the point mapped by tn first and by t1 last
RECURSIVE ApplyAll(_, _)
ApplyAll(ts, p) ==
    IF Len(ts) = 0 THEN p
    ELSE ApplyAll(SubSeq(ts, 1, Len(ts) - 1), apply_to_point(ts[Len(ts)], p))

\* shape i descends from a shape constructed with the identity transform
FromIdentity(i) == applied[i].base = identity

\* shape i is Rectangle(0, 0, 100, 50) after scale(2), then translation(10, 20)
IsScaledThenTranslated(i) ==
    /\ FromIdentity(i)
    /\ applied[i].seq = <<scale(2, None, None), translation(10, 20)>>
    /\ shapes[i].type = "RECTANGLE"
    /\ <<shapes[i].x, shapes[i].y, shapes[i].width, shapes[i].height>>
         = <<Float(0), Float(0), Float(100), Float(50)>>

\* the transform of shape i is the composition of the transforms applied to it
IsComposedInOrder(i) == shapes[i].transform = ComposeAll(applied[i].seq)

\* a point of shape i is mapped by tn first and by t1 last
MapsLastFirst(i) ==
    \A p \in Points :
        apply_to_point(shapes[i].transform, p) = ApplyAll(applied[i].seq, p)

\* t2, ..., tn of the transforms applied to shape i have bottom row [0, 0, 1]
LaterAppliedAffine(i) ==
    \A k \in DOMAIN applied[i].seq : k >= 2 => IsAffine(applied[i].seq[k])

\* C7 as stated: after apply_transform(t1), ..., apply_transform(tn) from a
\* shape with the identity transform, the transform is
\* t1.compose(t2)...compose(tn), so a point is mapped by tn first and by t1
\* last; scale(2) then translation(10, 20) on Rectangle(0, 0, 100, 50) gives
\* the bounds min = (20, 40), max = (220, 140).
C7_SequenceAllTransforms ==
    \A i \in DOMAIN shapes :
        FromIdentity(i) =>
            /\ IsComposedInOrder(i)
            /\ MapsLastFirst(i)
            /\ IsScaledThenTranslated(i) =>
                  get_bounds(shapes[i]) = Bounds(P(20, 40), P(220, 140))

\* C7 amended: the transform is t1.compose(t2)...compose(tn) for all
\* transforms; a point is mapped by tn first and by t1 last when t2, ..., tn
\* have bottom row [0, 0, 1]; the example bounds are as stated.
C7_ApplyTransformSequence ==
    \A i \in DOMAIN shapes :
        FromIdentity(i) =>
            /\ IsComposedInOrder(i)
            /\ LaterAppliedAffine(i) => MapsLastFirst(i)
            /\ IsScaledThenTranslated(i) =>
                  get_bounds(shapes[i]) = Bounds(P(20, 40), P(220, 140))

\* get_bounds has returned for Rectangle(0, 0, 100, 50) after scale(2), then
\* translation(10, 20)
C7_Witness ==
    /\ last.op = "get_bounds"
    /\ IsScaledThenTranslated(last.self)
    /\ Box = Bounds(P(20, 40), P(220, 140))

(***************************************************************************)
(* The scenario of Rectangle(10, 20, 100, 50) under a scale composed with  *)
(* a translation.                                                          *)
(***************************************************************************)
\* get_bounds has returned for Rectangle(x=10, y=20, width=100, height=50)
\* whose transform is scale(2).compose(translation(dx, dy))
GotScenarioBounds(dx, dy) ==
    /\ GotBoundsOf("RECTANGLE")
    /\ <<Bounded.x, Bounded.y, Bounded.width, Bounded.height>>
         = <<Float(10), Float(20), Float(100), Float(50)>>
    /\ Bounded.transform = compose(scale(2, None, None), translation(dx, dy))

\* C8 as stated: scale(2).compose(translation(10, 20)) on
\* Rectangle(10, 20, 100, 50) gives min = (120, 140), max = (320, 240).
C8_ScenarioAsStated ==
    GotScenarioBounds(10, 20) => Box = Bounds(P(120, 140), P(320, 240))

\* C8 amended: scale(2).compose(translation(10, 20)) on
\* Rectangle(10, 20, 100, 50) gives min = (40, 80), max = (240, 180); the
\* bounds min = (120, 140), max = (320, 240) are those under
\* scale(2).compose(translation(50, 50)).
C8_ScenarioBounds ==
    /\ GotScenarioBounds(10, 20) => Box = Bounds(P(40, 80), P(240, 180))
    /\ GotScenarioBounds(50, 50) => Box = Bounds(P(120, 140), P(320, 240))

\* get_bounds has returned in the scenario with translation(10, 20)
C8_Witness == GotScenarioBounds(10, 20)

(***************************************************************************)
(* Transform objects and the numpy arrays they refer to.  heap is a         *)
(* sequence of objects and an address is a position in it.  An ndarray has  *)
(* a dtype and a value; a Transform refers to the address of its _matrix.   *)
(* The caller can write into every array it holds a reference to.           *)
(***************************************************************************)
MaxHeap == 5

\* an ndarray object; origin tells where the caller got it from
ndarray(dtype, value, origin) ==
    [kind |-> "ndarray", dtype |-> dtype, value |-> value, origin |-> origin,
     matrix |-> 0, given |-> 0]

\* a Transform object whose _matrix is the array at address matrix; given is
\* the address of the array that was passed to the constructor (0 if none)
TransformObject(matrix, given) ==
    [kind |-> "Transform", dtype |-> "", value |-> <<>>, origin |-> "",
     matrix |-> matrix, given |-> given]

\* the result of a call on the heap: the heap after it, and the outcome
HeapResult(h, outcome) == [heap |-> h, outcome |-> outcome]

\* ndarray.astype(np.float64): the values of the copy
AsType64(array) ==
    IF array.dtype = "int64" THEN AsFloat64(array.value) ELSE array.value

\* the value of the _matrix of the Transform at address t
MatrixOf(h, t) == h[h[t].matrix].value

\* the Transform at address t, as a value
TransformAt(h, t) == TransformOf(MatrixOf(h, t))

\* a new Transform around a new float64 array with the given value
NewTransform(h, value, given) ==
    HeapResult(h \o <<ndarray("float64", value, "internal"),
                      TransformObject(Len(h) + 1, given)>>,
               Ok(Len(h) + 2))

\* Transform.__init__(matrix) for the array at address a: astype copies
Transform_init(h, a) ==
    IF ArrayShape(h[a].value) # <<3, 3>>
    THEN HeapResult(h, Raise(ValueError("Transform matrix must be 3x3")))
    ELSE NewTransform(h, AsType64(h[a]), a)

\* the matrix accessor returning the array itself
Transform_matrix_nocopy(h, t) == HeapResult(h, Ok(h[t].matrix))

\* the matrix accessor: self._matrix.copy()
Transform_matrix(h, t) ==
    HeapResult(Append(h, ndarray("float64", MatrixOf(h, t), "accessor")),
               Ok(Len(h) + 1))

\* self.compose(other) on the heap
Transform_compose(h, t, u) ==
    NewTransform(h, compose(TransformAt(h, t), TransformAt(h, u)).matrix, 0)

\* self.inverse() on the heap
Transform_inverse(h, t) ==
    LET outcome == inverse(TransformAt(h, t))
    IN  IF outcome.status = "raised" THEN HeapResult(h, outcome)
        ELSE NewTransform(h, Get(outcome.value).matrix, 0)

\* array[i, j] = k
SetItem(array, i, j, k) ==
    [array EXCEPT !.value[i][j] = IF array.dtype = "int64" THEN k ELSE Float(k)]

\* the addresses of a kind
Addresses(h, kind) == {a \in DOMAIN h : h[a].kind = kind}

\* the caller's references after a call that returned an address
Holding(outcome) ==
    IF outcome.status = "ok" THEN refs \cup {Get(outcome.value)} ELSE refs

\* what the caller writes into arrays: array[i, j] = k
Writes == {<<1, 3, 7>>}

\* np.array(m): the caller makes an array
CallArray(m) ==
    /\ Len(heap) < MaxHeap
    /\ heap' = Append(heap, ndarray("int64", m, "caller"))
    /\ refs' = refs \cup {Len(heap) + 1}
    /\ last' = Call("array", 0, 0, Some(m), Ok(Len(heap) + 1), 0)
    /\ UNCHANGED <<transforms, shapes, applied, uuids, document>>

\* Transform(a) for an array the caller holds
CallTransformOn(a) ==
    LET r == Transform_init(heap, a)
    IN  /\ Len(heap) + 2 <= MaxHeap
        /\ heap' = r.heap
        /\ refs' = Holding(r.outcome)
        /\ last' = Call("Transform", 0, a, None, r.outcome, 0)
        /\ UNCHANGED <<transforms, shapes, applied, uuids, document>>

\* t.matrix
CallMatrix(t) ==
    LET r == Transform_matrix(heap, t)
    IN  /\ Len(heap) < MaxHeap
        /\ heap' = r.heap
        /\ refs' = Holding(r.outcome)
        /\ last' = Call("matrix", t, 0, None, r.outcome, 0)
        /\ UNCHANGED <<transforms, shapes, applied, uuids, document>>

\* t.compose(u)
CallComposeOn(t, u) ==
    LET r == Transform_compose(heap, t, u)
    IN  /\ Len(heap) + 2 <= MaxHeap
        /\ heap' = r.heap
        /\ refs' = Holding(r.outcome)
        /\ last' = Call("compose", t, u, None, r.outcome, 0)
        /\ UNCHANGED <<transforms, shapes, applied, uuids, document>>

\* t.inverse()
CallInverseOn(t) ==
    LET r == Transform_inverse(heap, t)
    IN  /\ Len(heap) + 2 <= MaxHeap
        /\ heap' = r.heap
        /\ refs' = Holding(r.outcome)
        /\ last' = Call("inverse", t, 0, None, r.outcome, 0)
        /\ UNCHANGED <<transforms, shapes, applied, uuids, document>>

\* t.apply_to_point(point)
CallApplyToPointOn(t, point) ==
    /\ last' = Call("apply_to_point", t, 0, Some(point),
                    Ok(apply_to_point(TransformAt(heap, t), point)), 0)
    /\ UNCHANGED <<transforms, shapes, applied, uuids, heap, refs, document>>

\* a[i, j] = k for an array the caller holds
CallSetItem(a, w) ==
    /\ heap[a].value # SetItem(heap[a], w[1], w[2], w[3]).value
    /\ heap' = [heap EXCEPT ![a] = SetItem(heap[a], w[1], w[2], w[3])]
    /\ last' = Call("setitem", a, 0, Some(w), Ok(a), 0)
    /\ UNCHANGED <<transforms, shapes, applied, uuids, refs, document>>

NextArrays ==
    \/ \E m \in {ShearMatrix, SmallMatrix} : CallArray(m)
    \/ \E a \in refs \cap Addresses(heap, "ndarray") : CallTransformOn(a)
    \/ \E t \in refs \cap Addresses(heap, "Transform") : CallMatrix(t)
    \/ \E t \in refs \cap Addresses(heap, "Transform") :
            \E u \in refs \cap Addresses(heap, "Transform") : CallComposeOn(t, u)
    \/ \E t \in refs \cap Addresses(heap, "Transform") : CallInverseOn(t)
    \/ \E t \in refs \cap Addresses(heap, "Transform") :
            \E point \in {P(10, 20)} : CallApplyToPointOn(t, point)
    \/ \E a \in refs \cap Addresses(heap, "ndarray") :
            \E w \in Writes : ArrayShape(heap[a].value) = <<3, 3>> /\ CallSetItem(a, w)

SpecArrays == Init /\ [][NextArrays]_vars

\* C11: a Transform is immutable once constructed: no compose, inverse,
\* apply_to_point or matrix-accessor call, and no write into an array the
\* accessor returned or into the array passed to the constructor, changes the
\* matrix of any Transform.
C11_TransformImmutable ==
    [][\A t \in Addresses(heap, "Transform") :
          /\ heap'[t] = heap[t]
          /\ MatrixOf(heap', t) = MatrixOf(heap, t)]_vars

\* the caller has written into the array a Transform was constructed from, or
\* into an array its matrix accessor returned, and the Transform differs from
\* that array now
C11_Witness ==
    /\ last.op = "setitem"
    /\ \E t \in Addresses(heap, "Transform") :
          /\ heap[t].given = last.self \/ heap[last.self].origin = "accessor"
          /\ MatrixOf(heap, t) # AsType64(heap[last.self])

(***************************************************************************)
(* The transforms obtained from the provided constructors only: identity,  *)
(* translation, rotation, scale, and compose and inverse of such.          *)
(***************************************************************************)
ProvidedRotationArgs ==
    { <<"180", None>>, <<"90", Some(P(10, 20))>>, <<"atan(4/3)", Some(P(10, 20))>> }

ProvidedScaleArgs ==
    { <<2, None, Some(P(10, 20))>>, <<2, Some(3), Some(P(10, 20))>>,
      <<-1, Some(3), None>> }

NextProvided ==
    \/ CallIdentity
    \/ \E a \in TranslationArgs : CallTranslation(a[1], a[2])
    \/ \E a \in ProvidedRotationArgs : CallRotation(a[1], a[2])
    \/ \E a \in ProvidedScaleArgs : CallScale(a[1], a[2], a[3])
    \/ \E self \in DOMAIN transforms : \E other \in DOMAIN transforms :
            CallCompose(self, other)
    \/ \E self \in DOMAIN transforms : CallInverse(self)
    \/ \E self \in DOMAIN transforms : \E point \in Points :
            CallApplyToPoint(self, point)

SpecProvided == Init /\ [][NextProvided]_vars

\* the translation that moves the origin to p, and the one that moves p to the
\* origin
TranslateTo(p) ==
    TransformOf(<< <<One, Zero, p.x>>, <<Zero, One, p.y>>, <<Zero, Zero, One>> >>)

TranslateFrom(p) ==
    TransformOf(<< <<One, Zero, RNeg(p.x)>>, <<Zero, One, RNeg(p.y)>>,
                   <<Zero, Zero, One>> >>)

\* translate by -c, then apply t, then translate back by +c
About(c, t) == compose(compose(TranslateTo(c), t), TranslateFrom(c))

\* the scale about the origin by the factors fx, fy
ScaleAtOrigin(fx, fy) ==
    TransformOf(<< <<fx, Zero, Zero>>, <<Zero, fy, Zero>>, <<Zero, Zero, One>> >>)

\* the Transform the last call returned
Returned == transforms[last.result]

\* C12: rotation(angle, c) is translate by -c, rotate about the origin,
\* translate back by +c, and maps c to itself; scale(sx, sy, c) follows the same
\* pattern with c a fixed point; sy defaults to sx when omitted.
C12_CenterAdjustment ==
    /\ (last.op = "rotation" /\ ~IsNone(Get(last.arg)[2])) =>
          LET angle == Get(last.arg)[1]
              c == Get(Get(last.arg)[2])
          IN  /\ Returned = About(c, rotation(angle, None))
              /\ apply_to_point(Returned, c) = c
    /\ last.op = "scale" =>
          LET sx == Get(last.arg)[1]
              sy == Get(last.arg)[2]
              center == Get(last.arg)[3]
              fy == IF IsNone(sy) THEN Float(sx) ELSE Float(Get(sy))
          IN  /\ IsNone(sy) => Returned = scale(sx, Some(sx), center)
              /\ ~IsNone(center) =>
                    /\ Returned = About(Get(center), ScaleAtOrigin(Float(sx), fy))
                    /\ apply_to_point(Returned, Get(center)) = Get(center)
              /\ IsNone(center) => Returned = ScaleAtOrigin(Float(sx), fy)

\* rotation about a center off the origin, by an angle that is not a multiple
\* of 90 degrees, has returned
C12_Witness ==
    /\ last.op = "rotation"
    /\ ~IsNone(Get(last.arg)[2])
    /\ Returned.matrix[1][1] # Zero
    /\ Returned.matrix[1][2] # Zero
    /\ Returned.matrix[1][3] # Returned.matrix[2][3]

\* C13: every Transform obtained from identity, translation, rotation and
\* scale, and from any sequence of compose and inverse applied to such
\* transforms, has bottom row [0, 0, 1].
C13_BottomRow ==
    \A i \in DOMAIN transforms : IsAffine(transforms[i])

\* inverse() has returned for a transform that rotates or scales and translates
C13_Witness ==
    /\ last.op = "inverse"
    /\ last.status = "ok"
    /\ Returned.matrix[1][3] # Zero
    /\ Returned.matrix[1][1] # One
    /\ \E i \in DOMAIN transforms : \E j \in DOMAIN transforms :
          i # last.result /\ j # last.result
          /\ transforms[last.self] = compose(transforms[i], transforms[j])

(***************************************************************************)
(* Serialization: to_dict, from_dict and ShapeFactory.                     *)
(*                                                                         *)
(* A dictionary is a record with one field per key; the field is None when *)
(* the key is absent and Some(value) when it is present.  The values under *)
(* the numeric keys are Python values (a float, a str or None), because    *)
(* from_dict passes them through float().                                  *)
(***************************************************************************)
PyFloat(r) == [t |-> "float", f |-> r, s |-> ""]
PyStr(str) == [t |-> "str", f |-> Zero, s |-> str]
PyNone == [t |-> "NoneType", f |-> Zero, s |-> ""]

KeyError(key) == [type |-> "KeyError", message |-> key]
TypeError(message) == [type |-> "TypeError", message |-> message]

\* float(str) for the strings of the model
ParseFloat(str) ==
    CASE str = "nan" -> Ok(NaN)
      [] str = "100" -> Ok(Float(100))
      [] OTHER -> Raise(ValueError("could not convert string to float"))

\* float(v)
PyFloatOf(v) ==
    CASE v.t = "float" -> Ok(v.f)
      [] v.t = "str" -> ParseFloat(v.s)
      [] OTHER -> Raise(TypeError("float() argument must be a string or a real number"))

\* data.get(key, default), for the field of the key
DataGet(field, default) == IF IsNone(field) THEN default ELSE Get(field)

\* float(data[key]): KeyError when the key is absent
FloatItem(field, key) ==
    IF IsNone(field) THEN Raise(KeyError(key)) ELSE PyFloatOf(Get(field))

\* the dictionary without any key
EmptyDict ==
    [id |-> None, type |-> None, layer_id |-> None, group_id |-> None,
     visible |-> None, locked |-> None, style |-> None, transform |-> None,
     metadata |-> None, x |-> None, y |-> None, width |-> None, height |-> None,
     corner_radius |-> None, cx |-> None, cy |-> None, radius |-> None]

\* the dictionary without any key, as the value of the style key
EmptyStyleDict ==
    [fill_color |-> None, stroke_color |-> None, stroke_width |-> None,
     fill_opacity |-> None, stroke_opacity |-> None]

\* Style.model_dump(): every field under its name
model_dump(style) ==
    [fill_color |-> Some(style.fill_color), stroke_color |-> Some(style.stroke_color),
     stroke_width |-> Some(style.stroke_width),
     fill_opacity |-> Some(style.fill_opacity),
     stroke_opacity |-> Some(style.stroke_opacity)]

\* Style(**style_data): the fields that are absent take their defaults
StyleFromDict(style_data) ==
    Style(DataGet(style_data.fill_color, DefaultStyle.fill_color),
          DataGet(style_data.stroke_color, DefaultStyle.stroke_color),
          DataGet(style_data.stroke_width, DefaultStyle.stroke_width),
          DataGet(style_data.fill_opacity, DefaultStyle.fill_opacity),
          DataGet(style_data.stroke_opacity, DefaultStyle.stroke_opacity))

\* ndarray.tolist() with the columns where the rows should be
tolist_columns(m) == [i \in 1..Len(m[1]) |-> [j \in 1..Len(m) |-> m[j][i]]]

\* ndarray.tolist(): the list of the rows, each the list of its entries
tolist(m) == [i \in 1..Len(m) |-> [j \in 1..Len(m[i]) |-> m[i][j]]]

\* np.array(data) for a list of lists of floats: the lists are the rows
np_array(data) == [i \in 1..Len(data) |-> [j \in 1..Len(data[i]) |-> data[i][j]]]

\* Transform(np.array(transform_data)) for a list of lists of floats
TransformFromList(transform_data) ==
    IF ArrayShape(np_array(transform_data)) # <<3, 3>>
    THEN Raise(ValueError("Transform matrix must be 3x3"))
    ELSE Ok(TransformOf(np_array(transform_data)))

\* Shape.to_dict: the keys common to every shape
Shape_to_dict(self) ==
    [EmptyDict EXCEPT
        !.id = Some(Some(self.id)),
        !.type = Some(self.type),
        !.layer_id = Some(self.layer_id),
        !.group_id = Some(self.group_id),
        !.visible = Some(self.visible),
        !.locked = Some(self.locked),
        !.style = Some(model_dump(self.style)),
        !.transform = Some(tolist(self.transform.matrix)),
        !.metadata = Some(self.metadata)]

Rectangle_to_dict(self) ==
    [Shape_to_dict(self) EXCEPT
        !.x = Some(PyFloat(self.x)),
        !.y = Some(PyFloat(self.y)),
        !.width = Some(PyFloat(self.width)),
        !.height = Some(PyFloat(self.height)),
        !.corner_radius = Some(PyFloat(self.corner_radius))]

Circle_to_dict(self) ==
    [Shape_to_dict(self) EXCEPT
        !.cx = Some(PyFloat(self.cx)),
        !.cy = Some(PyFloat(self.cy)),
        !.radius = Some(PyFloat(self.radius))]

\* shape.to_dict(), dispatched on the class of the shape
to_dict(self) ==
    IF self.type = "RECTANGLE" THEN Rectangle_to_dict(self) ELSE Circle_to_dict(self)

\* the first exception of a list of outcomes, if any
RECURSIVE FirstRaised(_)
FirstRaised(outcomes) ==
    IF Len(outcomes) = 0 THEN None
    ELSE IF outcomes[1].status = "raised" THEN outcomes[1].exc
    ELSE FirstRaised(Tail(outcomes))

\* the keyword arguments from_dict hands to the constructor, or the exception
\* that reconstructing the transform raises
KwFromDict(data) ==
    LET layer_id == DataGet(data.layer_id, "")
        group_id == DataGet(data.group_id, None)
        visible == DataGet(data.visible, TRUE)
        locked == DataGet(data.locked, FALSE)
        shape_id == DataGet(data.id, None)
        metadata == DataGet(data.metadata, {})
        style_data == DataGet(data.style, EmptyStyleDict)
        style == IF style_data # EmptyStyleDict
                 THEN Some(StyleFromDict(style_data)) ELSE None
        transform_data == DataGet(data.transform, <<>>)
        transform == IF Len(transform_data) > 0
                     THEN TransformFromList(transform_data) ELSE Ok(identity)
    IN  IF transform.status = "raised" THEN Raise(Get(transform.exc))
        ELSE Ok(Kw(layer_id, group_id, visible, locked, style,
                   IF Len(transform_data) > 0 THEN transform.value ELSE None,
                   Some(metadata), shape_id))

\* the failure from_dict raises when a numeric field cannot be read
InvalidData(shape_type, text, data, e, n) ==
    Using(Raise(ShapeValidationError(shape_type,
                    [text |-> text \o ": " \o e.type, got |-> None],
                    DataGet(data.id, None))), n)

\* Rectangle.from_dict that reads the height from the width key
Rectangle_from_dict_width_twice(data, n) ==
    LET x == FloatItem(data.x, "x")
        y == FloatItem(data.y, "y")
        width == FloatItem(data.width, "width")
        height == FloatItem(data.width, "width")
        corner_radius == PyFloatOf(DataGet(data.corner_radius, PyFloat(Zero)))
        failed == FirstRaised(<<x, y, width, height, corner_radius>>)
        kw == KwFromDict(data)
    IN  IF ~IsNone(failed)
        THEN InvalidData("RECTANGLE", "Invalid rectangle data", data, Get(failed), n)
        ELSE IF kw.status = "raised" THEN Using(kw, n)
        ELSE Rectangle(Get(x.value), Get(y.value), Get(width.value),
                       Get(height.value), Get(corner_radius.value),
                       Get(kw.value), n)

Rectangle_from_dict(data, n) ==
    LET x == FloatItem(data.x, "x")
        y == FloatItem(data.y, "y")
        width == FloatItem(data.width, "width")
        height == FloatItem(data.height, "height")
        corner_radius == PyFloatOf(DataGet(data.corner_radius, PyFloat(Zero)))
        failed == FirstRaised(<<x, y, width, height, corner_radius>>)
        kw == KwFromDict(data)
    IN  IF ~IsNone(failed)
        THEN InvalidData("RECTANGLE", "Invalid rectangle data", data, Get(failed), n)
        ELSE IF kw.status = "raised" THEN Using(kw, n)
        ELSE Rectangle(Get(x.value), Get(y.value), Get(width.value),
                       Get(height.value), Get(corner_radius.value),
                       Get(kw.value), n)

Circle_from_dict(data, n) ==
    LET cx == FloatItem(data.cx, "cx")
        cy == FloatItem(data.cy, "cy")
        radius == FloatItem(data.radius, "radius")
        failed == FirstRaised(<<cx, cy, radius>>)
        kw == KwFromDict(data)
    IN  IF ~IsNone(failed)
        THEN InvalidData("CIRCLE", "Invalid circle data", data, Get(failed), n)
        ELSE IF kw.status = "raised" THEN Using(kw, n)
        ELSE Circle(Get(cx.value), Get(cy.value), Get(radius.value),
                    Get(kw.value), n)

\* cls.from_dict(data) for the class of the name
from_dict(cls, data, n) ==
    IF cls = "RECTANGLE" THEN Rectangle_from_dict(data, n)
    ELSE Circle_from_dict(data, n)

\* the names of ShapeType, and the ones ShapeFactory has a class for
ShapeTypeNames == {"RECTANGLE", "CIRCLE", "LINE", "POLYGON", "POLYLINE", "GROUP"}
\* the registry before Circle was registered
shape_registry_rectangle_only == {"RECTANGLE"}

shape_registry == {"RECTANGLE", "CIRCLE"}

\* ShapeFactory.from_dict(data)
ShapeFactory_from_dict(data, n) ==
    IF IsNone(data.type) \/ Get(data.type) \notin ShapeTypeNames
    THEN Using(Raise(ShapeValidationError("Unknown",
                        [text |-> "Invalid or missing shape type", got |-> None],
                        DataGet(data.id, None))), n)
    ELSE IF Get(data.type) \notin shape_registry
    THEN Using(Raise(ShapeValidationError(Get(data.type),
                        [text |-> "Unsupported shape type", got |-> None],
                        DataGet(data.id, None))), n)
    ELSE from_dict(Get(data.type), data, n)

\* ShapeFactory.create_rectangle and ShapeFactory.create_circle
ShapeFactory_create_rectangle(x, y, width, height, corner_radius, kw, n) ==
    Rectangle(x, y, width, height, corner_radius, kw, n)

ShapeFactory_create_circle(cx, cy, radius, kw, n) == Circle(cx, cy, radius, kw, n)

\* the keyword arguments **kwargs of create_shape: the geometry of either
\* class and shape_id, each one given or absent
NoKwargs ==
    [x |-> None, y |-> None, width |-> None, height |-> None,
     corner_radius |-> None, cx |-> None, cy |-> None, radius |-> None,
     shape_id |-> None]

\* shape_class(**kwargs) raises TypeError when a parameter without default is
\* absent or when a keyword is no parameter of the constructor
RectangleTakes(kwargs) ==
    /\ \A k \in {"x", "y", "width", "height"} : ~IsNone(kwargs[k])
    /\ \A k \in {"cx", "cy", "radius"} : IsNone(kwargs[k])

CircleTakes(kwargs) ==
    /\ \A k \in {"cx", "cy", "radius"} : ~IsNone(kwargs[k])
    /\ \A k \in {"x", "y", "width", "height", "corner_radius"} : IsNone(kwargs[k])

\* ShapeFactory.create_shape(shape_type, layer_id, **kwargs)
ShapeFactory_create_shape(shape_type, layer_id, kwargs, n) ==
    LET shape_id == DataGet(kwargs.shape_id, None)
        kw == Kw(layer_id, None, TRUE, FALSE, None, None, None, shape_id)
        failure(text) ==
            Using(Raise(ShapeValidationError(shape_type,
                            [text |-> text, got |-> None], shape_id)), n)
    IN  IF shape_type \notin shape_registry THEN failure("Unsupported shape type")
        ELSE IF shape_type = "RECTANGLE"
        THEN IF ~RectangleTakes(kwargs) THEN failure("Invalid parameters")
             ELSE Rectangle(Get(kwargs.x), Get(kwargs.y), Get(kwargs.width),
                            Get(kwargs.height), DataGet(kwargs.corner_radius, Zero),
                            kw, n)
        ELSE IF ~CircleTakes(kwargs) THEN failure("Invalid parameters")
             ELSE Circle(Get(kwargs.cx), Get(kwargs.cy), Get(kwargs.radius), kw, n)

(***************************************************************************)
(* Shapes obtained from ShapeFactory and from dictionaries.                *)
(***************************************************************************)
\* rectangle calls that break several rules at once, each with an empty
\* layer_id: every rule, all but the width, a negative corner radius, a corner
\* radius above the maximum, the layer_id alone without and with a shape_id,
\* and a width that is not a number with a negative height
SeveralInvalid ==
    { <<Zero, Zero, Float(-1), Float(-1), Float(-1), Plain("", None)>>,
      <<Zero, Zero, Float(100), Float(-1), Float(-1),
        [FullKw EXCEPT !.layer_id = ""]>>,
      <<Zero, Zero, Float(100), Float(50), Float(-1), Plain("", None)>>,
      <<Zero, Zero, Float(100), Float(50), Float(26),
        [FullKw EXCEPT !.layer_id = ""]>>,
      <<Zero, Zero, Float(100), Float(50), Zero, Plain("", None)>>,
      <<Zero, Zero, Float(100), Float(50), Zero, [FullKw EXCEPT !.layer_id = ""]>>,
      <<Zero, Zero, NaN, Float(-1), Zero, Plain("", None)>> }

\* the calls ShapeFactory.create_rectangle(x, y, width, height, layer_id,
\* corner_radius=..., **kw) with float arguments: a corner radius of exactly
\* half the height, one above it, and a width that is not a number
CreateRectangleCalls ==
    { <<Zero, Zero, Float(100), Float(50), Float(25), Plain("layer1", None)>>,
      <<Float(10), Float(20), Float(100), Float(50), Float(5), FullKw>>,
      <<Zero, Zero, Float(100), Float(50), Float(26), Plain("layer1", None)>>,
      <<Zero, Zero, NaN, Float(50), Zero, Plain("layer1", None)>> }
        \cup SeveralInvalid

\* the calls ShapeFactory.create_circle(cx, cy, radius, layer_id, **kw); the
\* second has a singular transform that mirrors x and flattens y, the last
\* three have an empty layer_id
CreateCircleCalls ==
    { <<Float(50), Float(50), Float(25), FullKw>>,
      <<Float(50), Float(50), Float(25),
        Plain("layer1", Some(scale(-2, Some(0), None)))>>,
      <<Zero, Zero, Float(-5), FullKw>>,
      <<Zero, Zero, NaN, Plain("layer1", None)>>,
      <<Zero, Zero, Float(-5), Plain("", None)>>,
      <<Zero, Zero, Float(5), Plain("", None)>>,
      <<Zero, Zero, Float(5), [FullKw EXCEPT !.layer_id = ""]>> }

\* the calls ShapeFactory.create_shape(shape_type, layer_id, **kwargs): a
\* rectangle and a circle with their geometry, each class without any
\* geometry, a rectangle of negative width, a rectangle given a radius, and
\* the kinds without a class
RectangleKwargs(width) ==
    [NoKwargs EXCEPT !.x = Some(Float(10)), !.y = Some(Float(20)),
                     !.width = Some(width), !.height = Some(Float(50))]

CircleKwargs ==
    [NoKwargs EXCEPT !.cx = Some(Float(50)), !.cy = Some(Float(50)),
                     !.radius = Some(Float(25)), !.shape_id = Some(Some("circle-1"))]

CreateShapeCalls ==
    { <<"RECTANGLE", "layer1", RectangleKwargs(Float(100))>>,
      <<"RECTANGLE", "layer1", RectangleKwargs(Float(-100))>>,
      <<"RECTANGLE", "layer1", NoKwargs>>,
      <<"RECTANGLE", "layer1",
        [RectangleKwargs(Float(100)) EXCEPT !.radius = Some(Float(25))]>>,
      <<"CIRCLE", "layer1", CircleKwargs>>,
      <<"CIRCLE", "layer1", NoKwargs>>,
      <<"CIRCLE", "layer1", [CircleKwargs EXCEPT !.shape_id = Some(Some(""))]>>,
      <<"LINE", "layer1", NoKwargs>>,
      <<"POLYGON", "layer1", [NoKwargs EXCEPT !.shape_id = Some(Some("poly-1"))]>>,
      <<"POLYLINE", "layer1", RectangleKwargs(Float(100))>>,
      <<"GROUP", "layer1", CircleKwargs>> }

\* the dictionary of a rectangle with the required keys only
RectangleData(width) ==
    [EmptyDict EXCEPT
        !.type = Some("RECTANGLE"), !.layer_id = Some("layer1"),
        !.x = Some(PyFloat(Float(10))), !.y = Some(PyFloat(Float(20))),
        !.width = Some(width), !.height = Some(PyFloat(Float(50)))]

\* the dictionary of a circle with the required keys only
CircleData(radius) ==
    [EmptyDict EXCEPT
        !.type = Some("CIRCLE"), !.layer_id = Some("layer1"),
        !.cx = Some(PyFloat(Float(50))), !.cy = Some(PyFloat(Float(50))),
        !.radius = Some(radius)]

\* a list that is not a 3x3 matrix
List2x2 == <<<<One, Zero>>, <<Zero, One>>>>

\* the dictionaries handed to from_dict: well-formed ones, and ones with a
\* numeric field that is missing, not numeric, not a number or out of range
DictInputs ==
    { RectangleData(PyFloat(Float(100))),
      RectangleData(PyStr("100")),
      [RectangleData(PyStr("invalid")) EXCEPT !.id = Some(Some("rect-1"))],
      [RectangleData(PyFloat(Float(-100))) EXCEPT !.id = Some(Some("rect-1"))],
      [RectangleData(PyFloat(Float(100))) EXCEPT !.width = None,
                                                 !.id = Some(Some("rect-1"))],
      [RectangleData(PyStr("nan")) EXCEPT !.id = Some(Some("rect-1"))],
      [RectangleData(PyFloat(Float(-100))) EXCEPT !.id = Some(Some("rect-1")),
                                                  !.transform = Some(List2x2)],
      [CircleData(PyFloat(Float(25))) EXCEPT !.id = Some(Some("circle-1"))],
      [CircleData(PyNone) EXCEPT !.id = Some(Some("circle-1"))],
      [CircleData(PyFloat(Zero)) EXCEPT !.id = Some(Some("circle-1"))],
      [CircleData(PyFloat(NaN)) EXCEPT !.id = Some(Some("circle-1"))],
      [CircleData(PyFloat(Float(25))) EXCEPT !.id = Some(Some(""))],
      [CircleData(PyFloat(Float(25))) EXCEPT !.type = Some("LINE")],
      [CircleData(PyFloat(Float(25))) EXCEPT !.type = None] }

\* the dictionary the caller holds from the last to_dict call, if any
Serialized == IF last.op = "to_dict" THEN {Get(last.value)} ELSE {}

\* the state after a call that may have returned a new shape
Returning(op, self, arg, outcome) ==
    /\ outcome.uuids <= MaxUuids
    /\ shapes' = Keep(shapes, outcome)
    /\ applied' = IF outcome.status = "ok"
                  THEN Append(applied, Fresh(Get(outcome.value))) ELSE applied
    /\ uuids' = outcome.uuids
    /\ last' = Call(op, self, 0, arg, outcome, Kept(shapes, outcome))
    /\ UNCHANGED <<transforms, heap, refs, document>>

CallCreateRectangle(a) ==
    /\ Len(shapes) < MaxRoots
    /\ Returning("ShapeFactory.create_rectangle", 0, Some(a),
                 ShapeFactory_create_rectangle(a[1], a[2], a[3], a[4], a[5],
                                               a[6], uuids))

CallCreateCircle(a) ==
    /\ Len(shapes) < MaxRoots
    /\ Returning("ShapeFactory.create_circle", 0, Some(a),
                 ShapeFactory_create_circle(a[1], a[2], a[3], a[4], uuids))

CallCreateShape(a) ==
    /\ Len(shapes) < MaxRoots
    /\ Returning("ShapeFactory.create_shape", 0, Some(a),
                 ShapeFactory_create_shape(a[1], a[2], a[3], uuids))

CallToDict(self) ==
    /\ last' = Call("to_dict", self, 0, None, Ok(to_dict(shapes[self])), 0)
    /\ UNCHANGED <<transforms, shapes, applied, uuids, heap, refs, document>>

\* cls.from_dict(data); self is the shape data was serialized from, or 0
CallFromDict(cls, data) ==
    /\ Len(shapes) < (IF data \in Serialized THEN MaxShapes ELSE MaxRoots)
    /\ Returning(IF cls = "RECTANGLE" THEN "Rectangle.from_dict"
                 ELSE "Circle.from_dict",
                 IF data \in Serialized THEN last.self ELSE 0,
                 Some(data), from_dict(cls, data, uuids))

CallFactoryFromDict(data) ==
    /\ Len(shapes) < (IF data \in Serialized THEN MaxShapes ELSE MaxRoots)
    /\ Returning("ShapeFactory.from_dict",
                 IF data \in Serialized THEN last.self ELSE 0,
                 Some(data), ShapeFactory_from_dict(data, uuids))

NextDict ==
    \/ \E a \in CreateRectangleCalls : CallCreateRectangle(a)
    \/ \E a \in CreateCircleCalls : CallCreateCircle(a)
    \/ \E a \in CreateShapeCalls : CallCreateShape(a)
    \/ \E self \in DOMAIN shapes : CallToDict(self)
    \/ \E cls \in shape_registry : \E data \in DictInputs \cup Serialized :
            CallFromDict(cls, data)
    \/ \E data \in DictInputs \cup Serialized : CallFactoryFromDict(data)
    \/ \E self \in DOMAIN shapes : CallApplyTransform(self, translation(10, 20))
    \/ \E self \in DOMAIN shapes : CallGetBounds(self)

SpecDict == Init /\ [][NextDict]_vars

(***************************************************************************)
(* Properties of construction and serialization.                           *)
(***************************************************************************)
\* the geometry and the layer of a shape are within the documented ranges
IsValidShape(s) ==
    /\ s.layer_id # ""
    /\ IF s.type = "RECTANGLE"
       THEN /\ RLt(Zero, s.width)
            /\ RLt(Zero, s.height)
            /\ RLe(Zero, s.corner_radius)
            /\ RLe(s.corner_radius, RDiv(MinOf(<<s.width, s.height>>), Float(2)))
       ELSE RLt(Zero, s.radius)

\* the failure of the last call is a ShapeValidationError of the kind, with
\* the shape_id and a message that is one of the texts
RaisedValidation(kind, shape_id, texts) ==
    /\ last.status = "raised"
    /\ Get(last.exc).type = "ShapeValidationError"
    /\ Get(last.exc).shape_type = kind
    /\ Get(last.exc).shape_id = shape_id
    /\ Get(last.exc).validation_error.text \in texts

\* C14: every Rectangle held has width > 0, height > 0, a corner radius
\* between 0 and half the smaller side and a non-empty layer_id, every Circle
\* held has radius > 0 and a non-empty layer_id, and a rectangle whose corner
\* radius is exactly half the smaller side is accepted.
C14_ConstructionFailsClosed ==
    /\ \A i \in DOMAIN shapes : IsValidShape(shapes[i])
    /\ (/\ last.op = "ShapeFactory.create_rectangle"
        /\ Get(last.arg)[5] = RDiv(MinOf(<<Get(last.arg)[3], Get(last.arg)[4]>>),
                                   Float(2))
        /\ RLt(Zero, Get(last.arg)[5]))
       => last.status = "ok"

\* C15: a Rectangle call with a width or height that is zero or negative, and
\* a Circle call with a radius that is zero or negative, raises a
\* ShapeValidationError of the kind of the shape, with the shape_id given to
\* the call and a message that names a parameter that is zero or negative.
C15_NonPositiveRaises ==
    /\ (last.op = "Rectangle"
            /\ (Get(last.arg)[3] <= 0 \/ Get(last.arg)[4] <= 0))
       => /\ RaisedValidation("RECTANGLE", Get(last.arg)[6].shape_id,
                              {"Width must be positive", "Height must be positive"})
          /\ LET e == Get(last.exc).validation_error
             IN  IF e.text = "Width must be positive"
                 THEN Get(last.arg)[3] <= 0 /\ e.got = Some(Float(Get(last.arg)[3]))
                 ELSE Get(last.arg)[4] <= 0 /\ e.got = Some(Float(Get(last.arg)[4]))
    /\ (last.op = "Circle" /\ Get(last.arg)[3] <= 0)
       => /\ RaisedValidation("CIRCLE", Get(last.arg)[4].shape_id,
                              {"Radius must be positive"})
          /\ Get(last.exc).validation_error.got = Some(Float(Get(last.arg)[3]))

\* a Circle call with a zero radius and no shape_id has raised, or a Rectangle
\* call with a negative height and a shape_id has raised
C15_Witness ==
    \/ /\ last.op = "Circle"
       /\ Get(last.arg)[3] = 0
       /\ last.status = "raised"
       /\ IsNone(Get(last.exc).shape_id)
    \/ /\ last.op = "Rectangle"
       /\ Get(last.arg)[4] < 0
       /\ last.status = "raised"
       /\ Get(last.exc).shape_id = Some("shape-1")

\* the from_dict operations, and the ones of the class of a shape
FromDictOps == {"Rectangle.from_dict", "Circle.from_dict", "ShapeFactory.from_dict"}

FromDictOpsOf(s) ==
    {"ShapeFactory.from_dict",
     IF s.type = "RECTANGLE" THEN "Rectangle.from_dict" ELSE "Circle.from_dict"}

\* this step hands the dictionary the previous step got from to_dict of a
\* shape to from_dict of the class of that shape
RoundTripStep ==
    /\ last.op = "to_dict"
    /\ last'.op \in FromDictOpsOf(shapes[last.self])
    /\ last'.arg = last.value

\* C16: from_dict of the dictionary to_dict returned for a valid Rectangle or
\* Circle succeeds and returns a shape with the same id, type, geometric
\* fields, layer_id, group_id, visible, locked, style, metadata and transform.
C16_RoundTrip ==
    [][(RoundTripStep /\ IsValidShape(shapes[last.self]))
        => /\ last'.status = "ok"
           /\ LET s == shapes[last.self]
                  r == shapes'[last'.result]
              IN  /\ r.id = s.id /\ r.type = s.type
                  /\ r.layer_id = s.layer_id /\ r.group_id = s.group_id
                  /\ r.visible = s.visible /\ r.locked = s.locked
                  /\ r.style = s.style /\ r.metadata = s.metadata
                  /\ r.transform = s.transform
                  /\ r = s]_vars

\* from_dict has returned a second shape equal to a serialized rectangle that
\* has its own id, style, metadata, group and transform
C16_Witness ==
    /\ last.op = "Rectangle.from_dict"
    /\ last.self # 0
    /\ last.status = "ok"
    /\ last.result # last.self
    /\ shapes[last.result] = shapes[last.self]
    /\ shapes[last.self].id = "shape-1"
    /\ shapes[last.self].style = RedStyle
    /\ shapes[last.self].metadata # {}
    /\ shapes[last.self].corner_radius = Float(5)

\* a required numeric field of the dictionary is missing, is not numeric, or
\* gives a shape outside the ranges of the constructor
BadNumericField(cls, data) ==
    LET required == IF cls = "RECTANGLE"
                    THEN <<data.x, data.y, data.width, data.height>>
                    ELSE <<data.cx, data.cy, data.radius>>
        value(i) == Get(PyFloatOf(Get(required[i])).value)
    IN  \/ \E i \in DOMAIN required : IsNone(required[i])
        \/ \E i \in DOMAIN required : PyFloatOf(Get(required[i])).status = "raised"
        \/ IF cls = "RECTANGLE"
           THEN ~RLt(Zero, value(3)) \/ ~RLt(Zero, value(4))
           ELSE ~RLt(Zero, value(3))

\* C17: Rectangle.from_dict and Circle.from_dict of a dictionary with a
\* required numeric field that is missing, not numeric or outside the ranges
\* of the constructor raise a ShapeValidationError with the kind of the shape
\* and the id of the dictionary, and return no shape.
C17_FromDictFailsClosed ==
    \A cls \in shape_registry :
        (/\ last.op = (IF cls = "RECTANGLE" THEN "Rectangle.from_dict"
                       ELSE "Circle.from_dict")
         /\ BadNumericField(cls, Get(last.arg)))
        => /\ last.status = "raised"
           /\ last.result = 0
           /\ Get(last.exc).type = "ShapeValidationError"
           /\ Get(last.exc).shape_type = cls
           /\ Get(last.exc).shape_id = DataGet(Get(last.arg).id, None)

\* C18: to_dict gives the transform as the list of the three rows of its
\* matrix, from_dict of that dictionary gives a shape with the same
\* transform, and from_dict of a dictionary without a transform key gives a
\* shape whose transform is the identity.
C18_TransformRoundTrip ==
    [][/\ last'.op = "to_dict"
          => LET rows == Get(Get(last'.value).transform)
                 matrix == shapes'[last'.self].transform.matrix
             IN  /\ Len(rows) = 3
                 /\ \A i \in 1..3 :
                        /\ Len(rows[i]) = 3
                        /\ \A j \in 1..3 : rows[i][j] = matrix[i][j]
       /\ (RoundTripStep /\ last'.status = "ok")
          => shapes'[last'.result].transform = shapes[last.self].transform
       /\ (/\ last'.op \in FromDictOps
           /\ IsNone(Get(last'.arg).transform)
           /\ last'.status = "ok")
          => shapes'[last'.result].transform = identity]_vars

\* from_dict has returned a shape with the transform of the serialized one,
\* a matrix that differs from its transpose
C18_Witness ==
    /\ last.op \in FromDictOps
    /\ last.self # 0
    /\ last.status = "ok"
    /\ shapes[last.result].transform = shapes[last.self].transform
    /\ shapes[last.self].transform.matrix
            # tolist_columns(shapes[last.self].transform.matrix)

(***************************************************************************)
(* Shape objects and the objects they refer to.  A Shape object refers to  *)
(* the address of its _style (a pydantic model, which can be assigned to)  *)
(* and of its _metadata (a dict); its other fields are values.  The caller *)
(* can change every dict and every Style it holds a reference to.          *)
(***************************************************************************)
MaxObjects == 5

\* a dict object; returned tells whether a read of a shape has handed it out
PyDict(items, origin) ==
    [kind |-> "dict", items |-> items, origin |-> origin, returned |-> FALSE]

\* a Style object
StyleObject(fields, origin) ==
    [kind |-> "Style", fields |-> fields, origin |-> origin, returned |-> FALSE]

\* a Shape object: its value fields, and the addresses of _style and _metadata
ShapeObject(fields, style, metadata) ==
    [kind |-> "Shape", fields |-> fields, style |-> style, metadata |-> metadata]

\* the fields the shape at address s reports now
Reports(h, s) ==
    [h[s].fields EXCEPT !.style = h[h[s].style].fields,
                        !.metadata = h[h[s].metadata].items]

\* Shape.__init__: `style or Style()` and `metadata or {}` keep the object
\* given unless it is None or an empty dict
Shape_init_on(h, style, metadata) ==
    LET h1 == IF IsNone(style)
              THEN Append(h, StyleObject(DefaultStyle, "internal")) ELSE h
        keep == ~IsNone(metadata) /\ h[Get(metadata)].items # {}
        h2 == IF keep THEN h1 ELSE Append(h1, PyDict({}, "internal"))
    IN  [heap |-> h2,
         style |-> IF IsNone(style) THEN Len(h1) ELSE Get(style),
         metadata |-> IF keep THEN Get(metadata) ELSE Len(h2)]

\* the keyword arguments of a constructor call with the objects at the
\* addresses style and metadata (None if not given)
KwOn(h, style, metadata) ==
    Kw("layer1", None, TRUE, FALSE,
       IF IsNone(style) THEN None ELSE Some(h[Get(style)].fields), None,
       IF IsNone(metadata) THEN None ELSE Some(h[Get(metadata)].items),
       Some("shape-1"))

\* the new Shape object of an outcome of a constructor
NewShape(h, outcome, style, metadata) ==
    IF outcome.status = "raised" THEN HeapResult(h, outcome)
    ELSE LET base == Shape_init_on(h, style, metadata)
         IN  HeapResult(Append(base.heap,
                               ShapeObject(Get(outcome.value), base.style,
                                           base.metadata)),
                        Ok(Len(base.heap) + 1))

\* Rectangle(10, 20, 100, 50, layer_id=..., style=..., metadata=...)
Rectangle_on(h, style, metadata, n) ==
    NewShape(h, Rectangle(Float(10), Float(20), Float(100), Float(50), Zero,
                          KwOn(h, style, metadata), n), style, metadata)

\* Circle(50, 50, 25, layer_id=..., style=..., metadata=...)
Circle_on(h, style, metadata, n) ==
    NewShape(h, Circle(Float(50), Float(50), Float(25),
                       KwOn(h, style, metadata), n), style, metadata)

\* the metadata accessor: self._metadata.copy()
Shape_metadata(h, s) ==
    HeapResult(Append(h, [PyDict(h[h[s].metadata].items, "accessor")
                            EXCEPT !.returned = TRUE]),
               Ok(Len(h) + 1))

\* the style accessor: self._style
Shape_style(h, s) ==
    HeapResult([h EXCEPT ![h[s].style].returned = TRUE], Ok(h[s].style))

\* to_dict: a new dict whose "metadata" entry is self._metadata itself
Shape_to_dict_on(h, s) ==
    HeapResult([h EXCEPT ![h[s].metadata].returned = TRUE],
               Ok([to_dict(Reports(h, s)) EXCEPT !.metadata = Some(h[s].metadata)]))

\* apply_transform: the constructor is called with self._style and
\* self._metadata
Shape_apply_transform_on(h, s, transform, n) ==
    NewShape(h, apply_transform(Reports(h, s), transform, n),
             Some(h[s].style), Some(h[s].metadata))

\* d[key] = value
DictSetItem(d, item) ==
    [d EXCEPT !.items = {i \in d.items : i[1] # item[1]} \cup {item}]

\* style.fill_color = color
StyleSetAttr(style, color) == [style EXCEPT !.fields.fill_color = Some(color)]

\* the state after a call on the heap that returned an address or raised
ReturningOn(op, self, arg, r) ==
    /\ Len(r.heap) <= MaxObjects
    /\ heap' = r.heap
    /\ refs' = Holding(r.outcome)
    /\ last' = Call(op, self, 0, arg, r.outcome, 0)
    /\ UNCHANGED <<transforms, shapes, applied, uuids, document>>

\* the objects of a kind that did not come from a call on another object
Roots(h, kind) ==
    {a \in Addresses(h, kind) :
        IF kind = "Shape" THEN h[a].fields.transform = identity
        ELSE h[a].origin = "caller"}

\* the caller makes a dict
CallDict(items) ==
    /\ Cardinality(Roots(heap, "dict")) < MaxRoots
    /\ ReturningOn("dict", 0, Some(items),
                   HeapResult(Append(heap, PyDict(items, "caller")),
                              Ok(Len(heap) + 1)))

\* the caller makes a Style
CallStyle(fields) ==
    /\ Cardinality(Roots(heap, "Style")) < MaxRoots
    /\ ReturningOn("Style", 0, Some(fields),
                   HeapResult(Append(heap, StyleObject(fields, "caller")),
                              Ok(Len(heap) + 1)))

CallRectangleOn(style, metadata) ==
    /\ Cardinality(Roots(heap, "Shape")) < MaxRoots
    /\ ReturningOn("Rectangle", 0, Some(<<style, metadata>>),
                   Rectangle_on(heap, style, metadata, uuids))

CallCircleOn(style, metadata) ==
    /\ Cardinality(Roots(heap, "Shape")) < MaxRoots
    /\ ReturningOn("Circle", 0, Some(<<style, metadata>>),
                   Circle_on(heap, style, metadata, uuids))

CallMetadata(s) == ReturningOn("metadata", s, None, Shape_metadata(heap, s))

CallStyleOf(s) == ReturningOn("style", s, None, Shape_style(heap, s))

\* s.to_dict(): the caller holds the dict under its "metadata" key
CallToDictOn(s) ==
    LET r == Shape_to_dict_on(heap, s)
    IN  /\ heap' = r.heap
        /\ refs' = refs \cup {heap[s].metadata}
        /\ last' = Call("to_dict", s, 0, None, r.outcome, 0)
        /\ UNCHANGED <<transforms, shapes, applied, uuids, document>>

CallGetBoundsOn(s) ==
    /\ last' = Call("get_bounds", s, 0, None, Ok(get_bounds(Reports(heap, s))), 0)
    /\ UNCHANGED <<transforms, shapes, applied, uuids, heap, refs, document>>

CallApplyTransformOn(s, transform) ==
    ReturningOn("apply_transform", s, Some(transform),
                Shape_apply_transform_on(heap, s, transform, uuids))

\* d[key] = value for a dict the caller holds
CallDictSetItem(d, item) ==
    /\ heap[d] # DictSetItem(heap[d], item)
    /\ heap' = [heap EXCEPT ![d] = DictSetItem(heap[d], item)]
    /\ last' = Call("dict.setitem", d, 0, Some(item), Ok(d), 0)
    /\ UNCHANGED <<transforms, shapes, applied, uuids, refs, document>>

\* style.fill_color = color for a Style the caller holds
CallStyleSetAttr(style, color) ==
    /\ heap[style] # StyleSetAttr(heap[style], color)
    /\ heap' = [heap EXCEPT ![style] = StyleSetAttr(heap[style], color)]
    /\ last' = Call("Style.setattr", style, 0, Some(color), Ok(style), 0)
    /\ UNCHANGED <<transforms, shapes, applied, uuids, refs, document>>

\* the objects the caller may hand to a constructor
Given(kind) == {None} \cup {Some(a) : a \in refs \cap Addresses(heap, kind)}

NextObjects ==
    \/ \E items \in {{<<"key", "value">>}} : CallDict(items)
    \/ \E fields \in {RedStyle} : CallStyle(fields)
    \/ \E style \in Given("Style") : \E metadata \in Given("dict") :
            CallRectangleOn(style, metadata)
    \/ \E style \in Given("Style") : \E metadata \in Given("dict") :
            CallCircleOn(style, metadata)
    \/ \E s \in refs \cap Addresses(heap, "Shape") : CallMetadata(s)
    \/ \E s \in refs \cap Addresses(heap, "Shape") : CallStyleOf(s)
    \/ \E s \in refs \cap Addresses(heap, "Shape") : CallToDictOn(s)
    \/ \E s \in refs \cap Addresses(heap, "Shape") : CallGetBoundsOn(s)
    \/ \E s \in refs \cap Addresses(heap, "Shape") :
            CallApplyTransformOn(s, translation(10, 20))
    \/ \E d \in refs \cap Addresses(heap, "dict") :
            CallDictSetItem(d, <<"key", "modified">>)
    \/ \E style \in refs \cap Addresses(heap, "Style") :
            CallStyleSetAttr(style, "#00FF00")

SpecObjects == Init /\ [][NextObjects]_vars

\* C19: a change the caller makes to a value that a read of a shape (the
\* metadata or style accessor, to_dict) returned changes no field that any
\* shape reports; in particular a change of the dict the metadata accessor
\* returned leaves the metadata of the shape as it was.
C19_ShapeImmutable ==
    [][(last'.op \in {"dict.setitem", "Style.setattr"} /\ heap[last'.self].returned)
        => \A s \in Addresses(heap, "Shape") : Reports(heap', s) = Reports(heap, s)]_vars

(***************************************************************************)
(* class Document and class SVGExporter.  The shapes of a document are     *)
(* positions in shapes, in the order they were added.  The exported text   *)
(* is given by the element tree it is the serialization of.                *)
(***************************************************************************)
\* Document(): the default canvas, no shapes
Document ==
    [canvas_width |-> Float(800), canvas_height |-> Float(600), units |-> "px",
     shapes |-> <<>>]

\* document.add_shape(shape) for the shape at a position of the pool
add_shape(doc, shape) == [doc EXCEPT !.shapes = Append(@, shape)]

\* document.get_all_shapes(): a copy of the list
get_all_shapes(doc) == [k \in 1..Len(doc.shapes) |-> doc.shapes[k]]

\* str(x) of a float: integral values print with ".0"; the digits of the
\* other values are stood for by the fraction
str_float(x) ==
    IF IsNaN(x) THEN "nan"
    ELSE IF x.den = 1 THEN ToString(x.num) \o ".0"
    ELSE ToString(x.num) \o "/" \o ToString(x.den)

\* np.allclose(a, b) of two 3x3 arrays: |a - b| <= 1e-8 + 1e-5 * |b| for
\* every entry (false for nan)
allclose(a, b) ==
    \A i \in 1..3 : \A j \in 1..3 :
        LET x == a[i][j]
            y == b[i][j]
            d == RSub(x, y)
        IN  /\ ~IsNaN(x) /\ ~IsNaN(y)
            /\ Abs(d.num) * y.den
                    <= ((y.den + 1000 * Abs(y.num)) * d.den) \div 100000000

\* Transform.__eq__
Transform_eq(self, other) == allclose(self.matrix, other.matrix)

\* ";".join(parts)
RECURSIVE Join(_)
Join(parts) ==
    IF Len(parts) = 0 THEN ""
    ELSE IF Len(parts) = 1 THEN parts[1]
    ELSE parts[1] \o ";" \o Join(Tail(parts))

\* an element without attributes or children; an attribute is None if absent
Element(tag) ==
    [tag |-> tag, children |-> <<>>,
     xmlns |-> None, version |-> None, viewBox |-> None,
     x |-> None, y |-> None, width |-> None, height |-> None,
     rx |-> None, ry |-> None, cx |-> None, cy |-> None, r |-> None,
     style |-> None, transform |-> None]

\* the style attribute of a shape
StyleParts(style) ==
    (IF Truthy(style.fill_color)
     THEN <<"fill:" \o Get(style.fill_color)>>
            \o (IF RLt(style.fill_opacity, One)
                THEN <<"fill-opacity:" \o str_float(style.fill_opacity)>> ELSE <<>>)
     ELSE <<"fill:none">>)
    \o (IF Truthy(style.stroke_color)
        THEN <<"stroke:" \o Get(style.stroke_color),
               "stroke-width:" \o str_float(style.stroke_width)>>
               \o (IF RLt(style.stroke_opacity, One)
                   THEN <<"stroke-opacity:" \o str_float(style.stroke_opacity)>>
                   ELSE <<>>)
        ELSE <<>>)

\* the transform attribute: matrix(a,b,c,d,e,f)
MatrixText(m) ==
    "matrix(" \o str_float(m[1][1]) \o "," \o str_float(m[2][1]) \o ","
              \o str_float(m[1][2]) \o "," \o str_float(m[2][2]) \o ","
              \o str_float(m[1][3]) \o "," \o str_float(m[2][3]) \o ")"

\* SVGExporter._rectangle_to_svg
rectangle_to_svg(rect) ==
    LET attrib == [Element("rect") EXCEPT
                      !.x = Some(str_float(rect.x)),
                      !.y = Some(str_float(rect.y)),
                      !.width = Some(str_float(rect.width)),
                      !.height = Some(str_float(rect.height))]
        rounded == IF RLt(Zero, rect.corner_radius)
                   THEN [attrib EXCEPT !.rx = Some(str_float(rect.corner_radius)),
                                       !.ry = Some(str_float(rect.corner_radius))]
                   ELSE attrib
        styled == [rounded EXCEPT !.style = Some(Join(StyleParts(rect.style)))]
    IN  IF ~Transform_eq(rect.transform, identity)
        THEN [styled EXCEPT !.transform = Some(MatrixText(rect.transform.matrix))]
        ELSE styled

\* SVGExporter._shape_to_svg: the element, or None for a shape that is not a
\* Rectangle
shape_to_svg(shape) ==
    IF shape.type = "RECTANGLE" THEN Some(rectangle_to_svg(shape)) ELSE None

\* the elements of the shapes of a list, each put before the earlier ones
RECURSIVE ExportShapes_prepend(_, _)
ExportShapes_prepend(list, pool) ==
    IF Len(list) = 0 THEN <<>>
    ELSE LET shape == pool[list[1]]
             svg_element == IF shape.visible THEN shape_to_svg(shape) ELSE None
         IN  ExportShapes_prepend(Tail(list), pool)
                \o (IF IsNone(svg_element) THEN <<>> ELSE <<Get(svg_element)>>)

\* the elements of the shapes of a list, in order
RECURSIVE ExportShapes(_, _)
ExportShapes(list, pool) ==
    IF Len(list) = 0 THEN <<>>
    ELSE LET shape == pool[list[1]]
             svg_element == IF shape.visible THEN shape_to_svg(shape) ELSE None
         IN  (IF IsNone(svg_element) THEN <<>> ELSE <<Get(svg_element)>>)
                \o ExportShapes(Tail(list), pool)

\* SVGExporter.export_document: the root element with its children
export_document(doc, pool) ==
    [Element("svg") EXCEPT
        !.xmlns = Some("http://www.w3.org/2000/svg"),
        !.version = Some("1.1"),
        !.width = Some(str_float(doc.canvas_width)),
        !.height = Some(str_float(doc.canvas_height)),
        !.viewBox = Some("0 0 " \o str_float(doc.canvas_width) \o " "
                            \o str_float(doc.canvas_height)),
        !.children = ExportShapes(get_all_shapes(doc), pool)]

\* keyword arguments with a shape_id and the defaults
Named(shape_id) == Kw("layer1", None, TRUE, FALSE, None, None, None, Some(shape_id))

\* the shapes of the documents: a plain rectangle, an invisible one, a
\* visible one with a transform, and circles with and without a transform
SvgRectangleCalls ==
    { <<Float(10), Float(20), Float(100), Float(50), Zero, Named("rect-1")>>,
      <<Float(10), Float(20), Float(100), Float(50), Float(5), FullKw>>,
      <<Zero, Zero, Float(30), Float(40), Float(5),
        [Named("rect-2") EXCEPT !.transform = Some(ScaleThenTranslate10)]>> }

SvgCircleCalls ==
    { <<Float(50), Float(50), Float(25), Named("circle-1")>>,
      <<Float(50), Float(50), Float(25),
        [Named("circle-2") EXCEPT !.transform = Some(translation(10, 20))]>> }

CallDocument ==
    /\ IsNone(document)
    /\ document' = Some(Document)
    /\ last' = Call("Document", 0, 0, None, Ok(Document), 0)
    /\ UNCHANGED <<transforms, shapes, applied, uuids, heap, refs>>

CallNewRectangle(a) ==
    /\ Len(shapes) < MaxShapes
    /\ Returning("Rectangle", 0, Some(a),
                 Rectangle(a[1], a[2], a[3], a[4], a[5], a[6], uuids))
    /\ UNCHANGED document

CallNewCircle(a) ==
    /\ Len(shapes) < MaxShapes
    /\ Returning("Circle", 0, Some(a), Circle(a[1], a[2], a[3], a[4], uuids))
    /\ UNCHANGED document

CallAddShape(shape) ==
    /\ ~IsNone(document)
    /\ Len(Get(document).shapes) < MaxShapes
    /\ document' = Some(add_shape(Get(document), shape))
    /\ last' = Call("add_shape", shape, 0, None, Ok(None), 0)
    /\ UNCHANGED <<transforms, shapes, applied, uuids, heap, refs>>

CallExportDocument ==
    /\ ~IsNone(document)
    /\ last' = Call("export_document", 0, 0, None,
                    Ok(export_document(Get(document), shapes)), 0)
    /\ UNCHANGED <<transforms, shapes, applied, uuids, heap, refs, document>>

NextSvg ==
    \/ CallDocument
    \/ \E a \in SvgRectangleCalls : CallNewRectangle(a)
    \/ \E a \in SvgCircleCalls : CallNewCircle(a)
    \/ \E shape \in DOMAIN shapes : CallAddShape(shape)
    \/ CallExportDocument

SpecSvg == Init /\ [][NextSvg]_vars

\* the positions in the document of the visible shapes of a type
VisibleOfType(type) ==
    {k \in DOMAIN Get(document).shapes :
        /\ shapes[Get(document).shapes[k]].type = type
        /\ shapes[Get(document).shapes[k]].visible}

\* the positions of the elements with a tag in the exported root
ElementsOf(tag) ==
    {k \in DOMAIN Get(last.value).children : Get(last.value).children[k].tag = tag}

\* C20: the export of a document has exactly one rect element for every
\* visible Rectangle and exactly one circle element, with cx, cy and r, for
\* every visible Circle of the document.
C20_NativePrimitivePerShape ==
    last.op = "export_document"
    => /\ Cardinality(ElementsOf("rect")) = Cardinality(VisibleOfType("RECTANGLE"))
       /\ Cardinality(ElementsOf("circle")) = Cardinality(VisibleOfType("CIRCLE"))
       /\ \A k \in ElementsOf("circle") :
            LET e == Get(last.value).children[k]
            IN  ~IsNone(e.cx) /\ ~IsNone(e.cy) /\ ~IsNone(e.r)

\* the shapes of the document that are visible Rectangles, in the order in
\* which they were added
Exported ==
    SelectSeq(Get(document).shapes,
              LAMBDA i : shapes[i].visible /\ shapes[i].type = "RECTANGLE")

\* C21: export_document raises nothing, gives no element for a shape with
\* visible=False or for a shape that is not a Rectangle, and gives the
\* elements of the other shapes in the order in which they were added.
C21_ExportSkipsInOrder ==
    last.op = "export_document"
    => /\ last.status = "ok"
       /\ Len(Get(last.value).children) = Len(Exported)
       /\ \A k \in DOMAIN Exported :
            LET e == Get(last.value).children[k]
                s == shapes[Exported[k]]
            IN  /\ e.tag = "rect"
                /\ e.x = Some(str_float(s.x)) /\ e.y = Some(str_float(s.y))
                /\ e.width = Some(str_float(s.width))
                /\ e.height = Some(str_float(s.height))

\* a document with two different visible rectangles and, between them, an
\* invisible rectangle or a circle has been exported
C21_Witness ==
    /\ last.op = "export_document"
    /\ Len(Get(document).shapes) = 3
    /\ Len(Exported) = 2
    /\ shapes[Exported[1]].width # shapes[Exported[2]].width
    /\ Get(document).shapes[2] \notin {Exported[1], Exported[2]}

\* the text matrix(a,b,c,d,e,f) with a=m00, b=m10, c=m01, d=m11, e=m02, f=m12
SvgMatrix(m) ==
    "matrix(" \o str_float(m[1][1]) \o "," \o str_float(m[2][1]) \o ","
              \o str_float(m[1][2]) \o "," \o str_float(m[2][2]) \o ","
              \o str_float(m[1][3]) \o "," \o str_float(m[2][3]) \o ")"

\* the positions in the document of the visible shapes whose transform is not
\* the identity
VisibleTransformed ==
    {k \in DOMAIN Get(document).shapes :
        /\ shapes[Get(document).shapes[k]].visible
        /\ shapes[Get(document).shapes[k]].transform # identity}

\* C22: in the export every visible shape whose transform is not the identity
\* has an element with the transform attribute matrix(m00,m10,m01,m11,m02,m12)
\* of its matrix, and no other element has a transform attribute.
C22_TransformAttribute ==
    last.op = "export_document"
    => /\ \A k \in VisibleTransformed :
            \E j \in DOMAIN Get(last.value).children :
                Get(last.value).children[j].transform
                    = Some(SvgMatrix(shapes[Get(document).shapes[k]].transform.matrix))
       /\ Cardinality({j \in DOMAIN Get(last.value).children :
                            ~IsNone(Get(last.value).children[j].transform)})
            = Cardinality(VisibleTransformed)

(***************************************************************************)
(* class Bounds: the predicates, applied to boxes and points of a grid.    *)
(***************************************************************************)
MaxCoordinate == 2

\* Bounds.contains_point
Bounds_contains_point(self, point) ==
    /\ RLe(self.min_point.x, point.x) /\ RLe(point.x, self.max_point.x)
    /\ RLe(self.min_point.y, point.y) /\ RLe(point.y, self.max_point.y)

\* Bounds.intersects that takes boxes that only touch for disjoint
Bounds_intersects_open(self, other) ==
    ~(\/ RLe(self.max_point.x, other.min_point.x)
      \/ RLe(other.max_point.x, self.min_point.x)
      \/ RLe(self.max_point.y, other.min_point.y)
      \/ RLe(other.max_point.y, self.min_point.y))

\* Bounds.intersects
Bounds_intersects(self, other) ==
    ~(\/ RLt(self.max_point.x, other.min_point.x)
      \/ RLt(other.max_point.x, self.min_point.x)
      \/ RLt(self.max_point.y, other.min_point.y)
      \/ RLt(other.max_point.y, self.min_point.y))

\* the x coordinates of the grid (y is 0 or 1), the boxes over it (the constructor does not
\* sort, so min_point may lie beyond max_point) and the points, some of them
\* with a coordinate that is not a number
GridCoordinates == {Float(c) : c \in 0..MaxCoordinate}

GridPoints == {Point(x, y) : x \in GridCoordinates, y \in {Zero, One}}

GridBounds == {Bounds(lo, hi) : lo \in GridPoints, hi \in GridPoints}

TestPoints == GridPoints \cup {Point(NaN, Zero), Point(One, NaN)}

CallContainsPoint(self, point) ==
    /\ last' = Call("contains_point", 0, 0, Some(<<self, point>>),
                    Ok(Bounds_contains_point(self, point)), 0)
    /\ UNCHANGED <<transforms, shapes, applied, uuids, heap, refs, document>>

CallIntersects(self, other) ==
    /\ last' = Call("intersects", 0, 0, Some(<<self, other>>),
                    Ok(Bounds_intersects(self, other)), 0)
    /\ UNCHANGED <<transforms, shapes, applied, uuids, heap, refs, document>>

NextBounds ==
    \/ \E self \in GridBounds : \E point \in TestPoints : CallContainsPoint(self, point)
    \/ \E self \in GridBounds : \E other \in GridBounds : CallIntersects(self, other)

SpecBounds == Init /\ [][NextBounds]_vars

\* the extrema of the box are sorted
IsSorted(b) == RLe(b.min_point.x, b.max_point.x) /\ RLe(b.min_point.y, b.max_point.y)

\* the point with the coordinates x and y lies in the closed box
InClosedBox(b, x, y) ==
    /\ ~IsNaN(x) /\ ~IsNaN(y)
    /\ ~RLt(x, b.min_point.x) /\ ~RLt(b.max_point.x, x)
    /\ ~RLt(y, b.min_point.y) /\ ~RLt(b.max_point.y, y)

\* the closed boxes have a point in common: if they have one, the point with
\* the larger min x and the larger min y is one
Overlap(a, b) ==
    \E x \in {a.min_point.x, b.min_point.x} : \E y \in {a.min_point.y, b.min_point.y} :
        InClosedBox(a, x, y) /\ InClosedBox(b, x, y)

\* C24: for boxes with sorted extrema, contains_point is true exactly for the
\* points of the closed box, intersects is true exactly when the closed boxes
\* have a point in common (boxes that touch do), and intersects gives the
\* same answer with the two boxes exchanged.
C24_BoundsPredicates ==
    /\ (last.op = "contains_point" /\ IsSorted(Get(last.arg)[1]))
       => Get(last.value)
            = InClosedBox(Get(last.arg)[1], Get(last.arg)[2].x, Get(last.arg)[2].y)
    /\ (last.op = "intersects" /\ IsSorted(Get(last.arg)[1])
            /\ IsSorted(Get(last.arg)[2]))
       => /\ Get(last.value) = Overlap(Get(last.arg)[1], Get(last.arg)[2])
          /\ Get(last.value) = Bounds_intersects(Get(last.arg)[2], Get(last.arg)[1])

\* intersects has been called for two boxes that share one corner only, and
\* has returned True
C24_Witness ==
    /\ last.op = "intersects"
    /\ IsSorted(Get(last.arg)[1]) /\ IsSorted(Get(last.arg)[2])
    /\ Get(last.arg)[1].max_point = Get(last.arg)[2].min_point
    /\ Get(last.arg)[1].min_point # Get(last.arg)[1].max_point
    /\ RLt(Get(last.arg)[2].min_point.x, Get(last.arg)[2].max_point.x)
    /\ RLt(Get(last.arg)[2].min_point.y, Get(last.arg)[2].max_point.y)
    /\ Get(last.value) = TRUE

(***************************************************************************)
(* Properties of ShapeFactory.create_shape.                                *)
(***************************************************************************)
UnregisteredKinds == {"LINE", "POLYGON", "POLYLINE", "GROUP"}

\* the shape type the last factory call named, "" when it was no factory
\* call by type or the dictionary names no member of ShapeType
RequestedKind ==
    IF last.op = "ShapeFactory.create_shape" THEN Get(last.arg)[1]
    ELSE IF last.op = "ShapeFactory.from_dict"
            /\ ~IsNone(Get(last.arg).type)
            /\ Get(Get(last.arg).type) \in ShapeTypeNames
         THEN Get(Get(last.arg).type)
    ELSE ""

\* the shape_id the failure of the last factory call has to carry
RequestedId ==
    IF last.op = "ShapeFactory.create_shape"
    THEN DataGet(Get(last.arg)[3].shape_id, None)
    ELSE DataGet(Get(last.arg).id, None)

\* the last call raised the ShapeValidationError with the text for the
\* requested kind and returned no shape
FactoryRaised(text) ==
    /\ RaisedValidation(RequestedKind, RequestedId, {text})
    /\ last.result = 0

\* the last call was create_shape(ShapeType.CIRCLE, "layer1") without
\* geometry parameters
CircleWithoutGeometry ==
    /\ last.op = "ShapeFactory.create_shape"
    /\ last.arg = Some(<<"CIRCLE", "layer1", NoKwargs>>)

OwnList == 0

\* the value of a call that returns a list: the reference to it
ListRef(ref) == <<ref>>

\* a list object; written records that the caller has changed it
PyList(items) == [kind |-> "list", items |-> items, written |-> FALSE]

\* the items of the list a reference refers to
ListItems(h, doc, ref) == IF ref = OwnList THEN doc.shapes ELSE h[ref].items

\* get_all_shapes that returns self.shapes itself
Document_get_all_shapes_alias(h, doc) == [heap |-> h, value |-> OwnList]

\* Document.get_all_shapes on the heap: return self.shapes.copy()
Document_get_all_shapes(h, doc) ==
    [heap |-> Append(h, PyList(get_all_shapes(doc))), value |-> Len(h) + 1]

\* list.append(shape), list.pop() and list.reverse() as functions of the items
ListAppend(items, shape) == Append(items, shape)
ListPop(items) == SubSeq(items, 1, Len(items) - 1)
ListReverse(items) == [k \in 1..Len(items) |-> items[Len(items) + 1 - k]]

\* the state after the caller has replaced the items of a list
ListWrite(op, ref, arg, items) ==
    /\ IF ref = OwnList
       THEN /\ document' = Some([Get(document) EXCEPT !.shapes = items])
            /\ heap' = heap
       ELSE /\ heap' = [heap EXCEPT ![ref].items = items, ![ref].written = TRUE]
            /\ document' = document
    /\ last' = Call(op, ref, 0, arg, Ok(None), 0)
    /\ UNCHANGED <<transforms, shapes, applied, uuids, refs>>

\* the constructor calls of the shapes of a document that were not made yet
Unmade(calls) ==
    {a \in calls :
        /\ Get(a[Len(a)].shape_id) \in {"rect-1", "circle-1"}
        /\ \A i \in DOMAIN shapes : shapes[i].id # Get(a[Len(a)].shape_id)}

\* lst = doc.get_all_shapes(): the caller names one list, the list it named
\* before is released
CallGetAllShapes ==
    LET r == Document_get_all_shapes(<<>>, Get(document))
    IN  /\ ~IsNone(document)
        /\ heap' = r.heap
        /\ refs' = {r.value}
        /\ last' = Call("get_all_shapes", 0, 0, None, Ok(ListRef(r.value)), 0)
        /\ UNCHANGED <<transforms, shapes, applied, uuids, document>>

CallListAppend(lst, shape) ==
    /\ ~IsNone(document)
    /\ Len(ListItems(heap, Get(document), lst)) < MaxShapes
    /\ ListWrite("list.append", lst, Some(shape),
                 ListAppend(ListItems(heap, Get(document), lst), shape))

CallListPop(lst) ==
    /\ ~IsNone(document)
    /\ Len(ListItems(heap, Get(document), lst)) > 0
    /\ ListWrite("list.pop", lst, None,
                 ListPop(ListItems(heap, Get(document), lst)))

CallListReverse(lst) ==
    /\ ~IsNone(document)
    /\ ListWrite("list.reverse", lst, None,
                 ListReverse(ListItems(heap, Get(document), lst)))

NextDocument ==
    \/ CallDocument
    \/ \E a \in Unmade(SvgRectangleCalls) : CallNewRectangle(a)
    \/ \E a \in Unmade(SvgCircleCalls) : CallNewCircle(a)
    \/ \E shape \in DOMAIN shapes : CallAddShape(shape)
    \/ CallGetAllShapes
    \/ \E lst \in refs : \E shape \in DOMAIN shapes : CallListAppend(lst, shape)
    \/ \E lst \in refs : CallListPop(lst)
    \/ \E lst \in refs : CallListReverse(lst)
    \/ CallExportDocument

SpecDocument == Init /\ [][NextDocument]_vars

\* C25: the list of a new document is empty, add_shape appends its argument
\* and no other call changes the list (a change of a list get_all_shapes
\* returned included), so that get_all_shapes returns, and export_document
\* exports, the shapes added in the order of the calls, repeated when added
\* twice.
C25_DocumentOwnsList ==
    [][/\ last'.op = "Document" => Get(document').shapes = <<>>
       /\ (~IsNone(document) /\ last'.op = "add_shape")
            => Get(document').shapes = Append(Get(document).shapes, last'.self)
       /\ (~IsNone(document) /\ last'.op # "add_shape")
            => Get(document').shapes = Get(document).shapes
       /\ last'.op = "get_all_shapes"
            => ListItems(heap', Get(document'), Get(last'.value)[1])
                    = Get(document').shapes
       /\ last'.op = "export_document"
            => Get(last'.value).children
                    = ExportShapes(Get(document').shapes, shapes')]_vars

\* the document holds a rectangle twice and a circle between, the caller has
\* emptied the list it was returned, and export_document exports the
\* rectangle twice
C25_Witness ==
    /\ last.op = "export_document"
    /\ Len(Get(document).shapes) = 3
    /\ Get(document).shapes[1] = Get(document).shapes[3]
    /\ Get(document).shapes[1] # Get(document).shapes[2]
    /\ \E lst \in refs : heap[lst].written /\ heap[lst].items = <<>>
    /\ shapes[Get(document).shapes[1]].type = "RECTANGLE"
    /\ Len(Get(last.value).children) >= 2

(***************************************************************************)
(* Properties of the bounds get_bounds computes.                           *)
(***************************************************************************)
\* C26: the Bounds get_bounds returns for a Rectangle or a Circle, whatever
\* its transform, has min_point.x <= max_point.x and
\* min_point.y <= max_point.y.
C26_ComputedBoundsSorted ==
    last.op = "get_bounds" => IsSorted(Box)

\* the images of the four cardinal points and of the center of a circle
FivePoints(c) ==
    {apply_to_point(c.transform, Circle_point(c, CardinalAngles[k])) : k \in 1..4}
        \cup {CenterImage(c)}

\* C27: for a Circle with an affine transform, the box get_bounds returns
\* lies within the true axis-aligned bounding box of the transformed circle,
\* contains the image of the center, and is the smallest box that contains
\* the images of the four cardinal points and of the center.
C27_CircleBoundsWithinTrueBox ==
    (GotBoundsOf("CIRCLE") /\ IsAffine(Bounded.transform)) =>
        /\ InsideTrueBox(Box, Bounded)
        /\ \A q \in FivePoints(Bounded) : InBox(Box, q)
        /\ TouchesAll(Box, FivePoints(Bounded))

(***************************************************************************)
(* Properties of the objects shapes share.                                 *)
(***************************************************************************)
\* the shapes whose reported metadata or style this step changes
Affected ==
    {s \in Addresses(heap, "Shape") :
        \/ Reports(heap', s).metadata # Reports(heap, s).metadata
        \/ Reports(heap', s).style # Reports(heap, s).style}

\* C28: a change the caller makes to a metadata dict or a Style object (one
\* it handed to a constructor, the dict to_dict returned, the Style the style
\* accessor returned) changes the metadata or style of no shape when the
\* caller made the object, and of one shape at most otherwise: never of both
\* a shape and the shape apply_transform returned for it.
C28_NoSharedState ==
    [][last'.op \in {"dict.setitem", "Style.setattr"}
        => /\ Cardinality(Affected) <= 1
           /\ heap[last'.self].origin = "caller" => Affected = {}]_vars

(***************************************************************************)
(* Properties of the order of validation.                                  *)
(***************************************************************************)
\* the first rule a rectangle call breaks, in the order width > 0,
\* height > 0, corner_radius >= 0, corner_radius <= min(width, height) / 2,
\* layer_id non-empty; "" when it breaks none
FirstBrokenOfRectangle(a) ==
    IF ~RLt(Zero, a[3]) THEN "Width must be positive"
    ELSE IF ~RLt(Zero, a[4]) THEN "Height must be positive"
    ELSE IF RLt(a[5], Zero) THEN "Corner radius cannot be negative"
    ELSE IF RLt(RDiv(MinOf(<<a[3], a[4]>>), Float(2)), a[5])
         THEN "Corner radius exceeds maximum allowed"
    ELSE IF a[6].layer_id = "" THEN "layer_id cannot be empty"
    ELSE ""

\* the first rule a circle call breaks, in the order radius > 0, layer_id
\* non-empty
FirstBrokenOfCircle(a) ==
    IF ~RLt(Zero, a[3]) THEN "Radius must be positive"
    ELSE IF a[4].layer_id = "" THEN "layer_id cannot be empty"
    ELSE ""

\* the shape_id the failure carries: for an empty layer_id the id the shape
\* would have had, which is the identifier just generated when the call gave
\* none, and for the geometry the shape_id of the call
CarriedId(text, kw) ==
    IF text # "layer_id cannot be empty" THEN kw.shape_id
    ELSE IF Truthy(kw.shape_id) THEN kw.shape_id
    ELSE Some(Uuid4(uuids))

\* C29: a constructor call that breaks one or several rules raises the
\* ShapeValidationError of the first rule it breaks, in the order width,
\* height, negative corner radius, corner radius above the maximum, empty
\* layer_id for Rectangle and radius, empty layer_id for Circle; the failure
\* for the empty layer_id carries the id the shape would have had and the
\* other failures carry the shape_id given to the call.
C29_ValidationOrder ==
    /\ (last.op = "ShapeFactory.create_rectangle"
            /\ FirstBrokenOfRectangle(Get(last.arg)) # "")
       => LET text == FirstBrokenOfRectangle(Get(last.arg))
          IN  RaisedValidation("RECTANGLE", CarriedId(text, Get(last.arg)[6]), {text})
    /\ (last.op = "ShapeFactory.create_circle"
            /\ FirstBrokenOfCircle(Get(last.arg)) # "")
       => LET text == FirstBrokenOfCircle(Get(last.arg))
          IN  RaisedValidation("CIRCLE", CarriedId(text, Get(last.arg)[4]), {text})

(***************************************************************************)
(* Properties of shape identifiers.                                        *)
(***************************************************************************)
\* the shape the step returned
NewShapeOfStep == shapes'[last'.result]

\* the shape_id the call of the step supplied: the keyword argument, the "id"
\* of the dictionary, or the id of the shape apply_transform was called on
SuppliedId ==
    IF last'.op = "ShapeFactory.create_rectangle" THEN Get(last'.arg)[6].shape_id
    ELSE IF last'.op = "ShapeFactory.create_circle" THEN Get(last'.arg)[4].shape_id
    ELSE IF last'.op = "ShapeFactory.create_shape"
         THEN DataGet(Get(last'.arg)[3].shape_id, None)
    ELSE IF last'.op \in FromDictOps THEN DataGet(Get(last'.arg).id, None)
    ELSE Some(shapes[last'.self].id)

\* the shapes held keep their ids
IdsKept ==
    /\ Len(shapes') >= Len(shapes)
    /\ \A i \in DOMAIN shapes : shapes'[i].id = shapes[i].id

\* C30 as stated: a shape has a non-empty id that never changes, the id is
\* the shape_id (or the "id" of the dictionary) when one is supplied and a
\* new identifier otherwise, and only apply_transform returns a shape with
\* the id of a shape that exists.
C30_OnlyApplyTransformRepeatsId ==
    [][/\ IdsKept
       /\ last'.result # 0 =>
            /\ NewShapeOfStep.id # ""
            /\ ~IsNone(SuppliedId) => NewShapeOfStep.id = Get(SuppliedId)
            /\ IsNone(SuppliedId) => NewShapeOfStep.id = Uuid4(uuids')
            /\ last'.op # "apply_transform"
                    => \A i \in DOMAIN shapes : shapes[i].id # NewShapeOfStep.id]_vars

\* C30 (amended): a shape has a non-empty id that never changes; the id is
\* the shape_id (or the "id" of the dictionary) when a non-empty one is
\* supplied, and otherwise (none, or an empty string) an identifier
\* generated by the call that no shape held has; apply_transform returns a
\* shape with the id of its receiver, and from_dict of the dictionary to_dict
\* returned for a shape returns a second shape with the id of that shape.
C30_ShapeIds ==
    [][/\ IdsKept
       /\ last'.result # 0 =>
            /\ NewShapeOfStep.id # ""
            /\ Truthy(SuppliedId) => NewShapeOfStep.id = Get(SuppliedId) /\ uuids' = uuids
            /\ ~Truthy(SuppliedId) =>
                    /\ uuids' = uuids + 1
                    /\ NewShapeOfStep.id = Uuid4(uuids')
                    /\ \A i \in DOMAIN shapes : shapes[i].id # NewShapeOfStep.id
            /\ last'.op = "apply_transform" => NewShapeOfStep.id = shapes[last'.self].id
            /\ (RoundTripStep /\ IsValidShape(shapes[last.self]))
                    => NewShapeOfStep.id = shapes[last.self].id]_vars

\* from_dict has returned a second shape with the id of the shape whose
\* dictionary it was given
C30_Witness ==
    /\ last.op \in FromDictOps
    /\ last.self # 0
    /\ last.result # 0
    /\ last.result # last.self
    /\ shapes[last.result].id = shapes[last.self].id
    /\ \E i \in DOMAIN shapes : shapes[i].id = Uuid4(1)

====
